---- MODULE Spec2Model ----
(***************************************************************************)
(* Verification model of the SUFST intermediate server.                    *)
(*                                                                         *)
(*   - the schema-driven codec (src/src/protocol/pdu.py,                   *)
(*     src/src/protocol/__init__.py),                                      *)
(*   - the ingestion loop of the Server (src/src/server.py,                *)
(*     src/src/protocol_factory.py),                                       *)
(*   - the legacy Server's data-PDU handlers (src/server.py),              *)
(*   - the staging store (src/serverdatabase.py).                          *)
(*                                                                         *)
(* Python dicts are modelled as sequences of <<key, value>> pairs in       *)
(* insertion order, bytes objects as sequences of numbers 0..255, and a    *)
(* raised exception as the "error" field of an operator's result.          *)
(***************************************************************************)
EXTENDS Integers, Sequences, FiniteSets, TLC

VARIABLES
    pdu_fields,     \* Protocol.pdus[id].fields, one dict per PDU descriptor
    chunks,         \* the PDUs / fragments the last delivery was made of
    received,       \* outcome of the last Protocol.data_received call
    pre,            \* pdu_fields before the last delivery
    prev_failed,    \* did the delivery before the last one raise
    db,             \* ServerDatabase: the connection's view and the file
    query,          \* the last store call and what it returned
    durable,        \* the rows the connection saw at its last commit
    queue,          \* ProtocolClient._queue
    running,        \* Server._protocol_serve: its loop variable
    serve_error,    \* the exception _protocol_serve caught last
    handled,        \* records handed to _protocol_serve_fields by the last recv
    n_put,          \* items put into the queue so far
    car_clients,    \* legacy Server._car_clients
    gui_clients,    \* legacy Server._gui_clients
    written,        \* PDUs written to each factory
    routing,        \* legacy data-PDU handler: is it in its routing loop
    pending,        \* the PDU that handler is routing
    todo,           \* GUI clients the routing loop has still to visit
    clock,          \* last value read from time.time()
    n_events,       \* legacy PDUs handled so far
    lost,           \* per factory: n_events when its connection was lost, -1 if it is up
    keep_alive,     \* Restful._config["keep_alive"]
    ws,             \* one query connection: handler state, last request and reply
    n_requests,     \* requests received on the connection so far
    get_data,       \* the last direct call of _restful_serve_sensor_get_data
    clients,        \* SocketIO.clients[server].connected
    reachable,      \* does the back end answer the login and the connect
    namespaces,     \* the Namespace registered for each back end
    emitted,        \* the "data" batches sent to each back end
    n_produced,     \* values the producers have handed over so far
    audit,          \* per back end: values enqueued, dropped by a failed emit, lost
    sio,            \* SocketIO.start / _health_check: where they are
    emu,            \* CarEmulator: generator thread, queue and event-loop task
    event_loop,     \* Server.serve_forever: is the event loop running
    tcp,            \* ProtocolFactory.serve over TCP: its peers, its one client and the serving tasks
    session,        \* Protocol.start: the sessions of its transport and the handler calls made
    wire,           \* a legacy PDU, its pack_raw bytes and the PDU unpack_raw makes of them
    plugin,         \* plugins.schema: a PDU descriptor being made and used, a delivery being parsed
    xbee,           \* the XBee transport: the library thread's deliveries, the loop's ready queue, what was decoded
    scheduler       \* the background scheduler: the emit jobs and health-check jobs it holds, SocketIO.health_job

codecVars == <<pdu_fields, chunks, received, pre, prev_failed>>
storeVars == <<db, query, durable>>
serveVars == <<queue, running, serve_error, handled, n_put>>
legacyVars == <<car_clients, gui_clients, written, routing, pending, todo, n_events, lost>>

restVars == <<keep_alive, ws, n_requests, get_data>>
brokerVars == <<clients, reachable, namespaces, emitted, n_produced, audit, sio>>
appVars == <<emu, event_loop, tcp, session, wire, plugin, xbee, scheduler>>

vars == <<codecVars, storeVars, serveVars, legacyVars, restVars, brokerVars, appVars, clock>>

-----------------------------------------------------------------------------
(* Bounds *)

\* PDUs / fragments per delivery
MaxPdus == 2

\* rows inserted into the store
MaxRows == 3

\* items put into a client's queue
MaxPut == 3

\* PDUs the legacy server handles
MaxEvents == 3

\* samples in the store the query server reads
MaxSamples == 2

\* values the producers hand to the namespaces
MaxProduced == 2

\* calls of SocketIO.start inside one another before the interpreter's
\* recursion limit is hit
MaxDepth == 2

\* restarts by the health check
MaxRestarts == 1

\* requests received on a query connection
MaxRequests == 2

-----------------------------------------------------------------------------
(* Python dict *)

DictKeys(d) == {d[i][1] : i \in DOMAIN d}

DictGet(d, k) == d[CHOOSE i \in DOMAIN d : d[i][1] = k][2]

DictSet(d, k, v) ==
    IF k \in DictKeys(d)
    THEN [i \in DOMAIN d |-> IF d[i][1] = k THEN <<k, v>> ELSE d[i]]
    ELSE Append(d, <<k, v>>)

\* del d[k] that leaves the entry in
DictDelNothing(d, k) == d

DictDel(d, k) == SelectSeq(d, LAMBDA p : p[1] # k)

-----------------------------------------------------------------------------
(* Schema configuration (config.schema) *)

schema ==
    [start_byte |-> 1,
     pdu |-> <<
        [name |-> "core", id |-> 0,
         struct |-> << <<"valid_bitfield", "I">>, <<"rpm", "H">>,
                       <<"water_temp_c", "H">>, <<"tps_perc", "H">>,
                       <<"battery_mv", "H">>, <<"ext_5v_mv", "H">>,
                       <<"fuel_flow", "H">>, <<"lambda", "H">>,
                       <<"speed_kph", "H">> >>],
        [name |-> "aero", id |-> 1,
         struct |-> << <<"valid_bitfield", "H">>, <<"epoch", "I">>,
                       <<"evo_scan_1", "H">> >>],
        [name |-> "diagnostic", id |-> 2,
         struct |-> << <<"valid_bitfield", "H">>, <<"epoch", "I">>,
                       <<"status_ecu_connected", "H">>,
                       <<"status_engine", "H">> >>] >>]

c_type_lengths ==
    [t \in {"c", "b", "B", "?", "h", "H", "i", "I", "l", "L", "f", "d", "q", "Q"} |->
        CASE t \in {"c", "b", "B", "?"} -> 1
          [] t \in {"h", "H"} -> 2
          [] t \in {"i", "I", "l", "L", "f"} -> 4
          [] OTHER -> 8]

-----------------------------------------------------------------------------
(* struct.pack / struct.unpack, "<" little-endian, unsigned integer types *)

RECURSIVE FromLittleEndian(_)
FromLittleEndian(bytes) ==
    IF bytes = <<>> THEN 0
    ELSE Head(bytes) + 256 * FromLittleEndian(Tail(bytes))

RECURSIVE ToLittleEndian(_, _)
ToLittleEndian(v, w) ==
    IF w = 0 THEN <<>>
    ELSE <<v % 256>> \o ToLittleEndian(v \div 256, w - 1)

RECURSIVE calcsize(_)
calcsize(fmt) ==
    IF fmt = <<>> THEN 0 ELSE c_type_lengths[Head(fmt)] + calcsize(Tail(fmt))

RECURSIVE unpack(_, _)
unpack(fmt, bytes) ==
    IF fmt = <<>> THEN <<>>
    ELSE LET w == c_type_lengths[Head(fmt)]
         IN  <<FromLittleEndian(SubSeq(bytes, 1, w))>>
                \o unpack(Tail(fmt), SubSeq(bytes, w + 1, Len(bytes)))

RECURSIVE pack(_, _)
pack(fmt, values) ==
    IF fmt = <<>> THEN <<>>
    ELSE ToLittleEndian(Head(values), c_type_lengths[Head(fmt)])
            \o pack(Tail(fmt), Tail(values))

-----------------------------------------------------------------------------
(* PDU descriptor (protocol/pdu.py) *)

\* mutant: the length is summed after the valid_bitfield has been removed
SumLengthsNoBitfield(struct) ==
    LET RECURSIVE Sum(_)
        Sum(st) == IF st = <<>> THEN 0 ELSE c_type_lengths[Head(st)[2]] + Sum(Tail(st))
    IN  Sum(Tail(struct))

RECURSIVE SumLengths(_)
SumLengths(struct) ==
    IF struct = <<>> THEN 0
    ELSE c_type_lengths[Head(struct)[2]] + SumLengths(Tail(struct))

\* PDU.__init__ / PDU._parse_pdu
PDU(name, struct) ==
    [name |-> name,
     length |-> SumLengths(struct),
     fields_names |-> Tail([i \in DOMAIN struct |-> struct[i][1]]),
     struct_format |-> [i \in DOMAIN struct |-> struct[i][2]]]

\* Protocol.init_protocol: pdus[conf["id"]] = PDU(name, conf["struct"])
pdus ==
    [id \in {schema.pdu[i].id : i \in DOMAIN schema.pdu} |->
        LET conf == schema.pdu[CHOOSE i \in DOMAIN schema.pdu : schema.pdu[i].id = id]
        IN  PDU(conf.name, conf.struct)]

\* Protocol.event_handlers: the names a handler is registered for
event_handlers == {"connect", "disconnect", "core", "aero", "diagnostic"}

\* (valid_bitfield >> i) & 1, i counted from 0
ValidBit(valid_bitfield, i) == (valid_bitfield \div (2 ^ i)) % 2 = 1

RECURSIVE StoreValid(_, _, _, _, _)
StoreValid(fields, names, values, valid_fields, i) ==
    IF i > Len(names) THEN fields
    ELSE StoreValid(IF names[i] \in valid_fields
                    THEN DictSet(fields, names[i], values[i + 1])
                    ELSE fields,
                    names, values, valid_fields, i + 1)

\* PDU.decode: the new value of self.fields, or struct.error
decode(pdu, fields, bytes_in) ==
    IF Len(bytes_in) # calcsize(pdu.struct_format)
    THEN [error |-> "struct.error", fields |-> fields]
    ELSE LET values == unpack(pdu.struct_format, bytes_in)
             valid_bitfield == values[1]
             valid_fields == {pdu.fields_names[i] :
                                i \in {j \in DOMAIN pdu.fields_names :
                                          ValidBit(valid_bitfield, j - 1)}}
         IN  [error |-> "none",
              fields |-> StoreValid(fields, pdu.fields_names, values, valid_fields, 1)]

-----------------------------------------------------------------------------
(* Protocol._parse_data / Protocol.data_received (protocol/__init__.py) *)

\* mutant: the start byte is not checked
BadStartByteNever(data, index) == FALSE

\* data[index] != config.schema["start_byte"]
BadStartByte(data, index) == data[index + 1] # schema.start_byte

\* pdu_type in self.pdus
KnownPduType(pdu_type) == pdu_type \in DOMAIN pdus

\* self.pdus[pdu_type].length > len(data) - index
TooShort(pdu_type, data, index) == pdus[pdu_type].length > Len(data) - index

Stop(flds, cs, err, index) ==
    [fields |-> flds, calls |-> cs, error |-> err, index |-> index]

\* the while loop of _parse_data, from cursor index (0-based as in the code)
RECURSIVE ParseLoop(_, _, _, _)

\* mutant: returns after the first PDU of the buffer
DecodeAndDispatchOnce(data, index, flds, cs, pdu_type, d) ==
    LET pdu == pdus[pdu_type]
    IN  IF d.error # "none" THEN Stop(flds, cs, d.error, index)
        ELSE Stop([flds EXCEPT ![pdu_type] = d.fields],
                  IF pdu.name \in event_handlers
                  THEN Append(cs, [name |-> pdu.name, fields |-> d.fields])
                  ELSE cs,
                  "none", index + pdu.length)

\* the else branch: decode the slice, call the handler, advance the index
DecodeAndDispatch(data, index, flds, cs, pdu_type, d) ==
    LET pdu == pdus[pdu_type]
    IN  IF d.error # "none" THEN Stop(flds, cs, d.error, index)
        ELSE ParseLoop(data, index + pdu.length,
                       [flds EXCEPT ![pdu_type] = d.fields],
                       IF pdu.name \in event_handlers
                       THEN Append(cs, [name |-> pdu.name, fields |-> d.fields])
                       ELSE cs)

ParseLoop(data, index, flds, cs) ==
    IF ~(index < Len(data)) THEN Stop(flds, cs, "none", index)
    ELSE IF BadStartByte(data, index) THEN Stop(flds, cs, "Invalid start byte", index)
    ELSE IF ~(index + 1 < Len(data)) THEN Stop(flds, cs, "IndexError", index + 1)
    ELSE LET pdu_type == data[index + 2] IN
         IF ~KnownPduType(pdu_type) THEN Stop(flds, cs, "Invalid PDU type", index + 1)
         ELSE IF TooShort(pdu_type, data, index + 2)
              THEN Stop(flds, cs, "Invalid data length", index + 2)
         ELSE \* evaluated once, then bound
              LET d == CHOOSE x \in {decode(pdus[pdu_type], flds[pdu_type],
                                            SubSeq(data, index + 3,
                                                   index + 2 + pdus[pdu_type].length))} : TRUE
              IN  DecodeAndDispatch(data, index + 2, flds, cs, pdu_type, d)

\* Protocol._parse_data: index = 0, then the loop
parse_data(data, flds) == ParseLoop(data, 0, flds, <<>>)

\* mutant: only the exceptions _parse_data raises itself are caught
CaughtOwnOnly(err) == err \in {"Invalid start byte", "Invalid PDU type", "Invalid data length"}

\* which exceptions "except Exception" catches: every one _parse_data raises
Caught(err) == TRUE

\* Protocol.data_received: try _parse_data, print the error
data_received(data, flds) ==
    LET r == parse_data(data, flds)
    IN  [parsed |-> r, propagated |-> (r.error # "none" /\ ~Caught(r.error))]

-----------------------------------------------------------------------------
(* Deliveries: what the car writes (struct.pack in the tests / emulators) *)

E1Values == <<1000, 80, 10, 20000, 20, 700, 55, 200>>

GoodPdus ==
    { [id |-> 0, valid |-> 255, vals |-> E1Values],
      [id |-> 0, valid |-> 1, vals |-> E1Values],
      [id |-> 1, valid |-> 3, vals |-> <<7, 513>>] }

EncodePdu(p) ==
    <<schema.start_byte, p.id>> \o pack(pdus[p.id].struct_format, <<p.valid>> \o p.vals)

FullLength(p) == 2 + pdus[p.id].length

\* a well-formed PDU, or a malformed one derived from it
Chunks ==
    [kind : {"pdu"}, pdu : GoodPdus, keep : {0}]
    \cup [kind : {"badstart", "unknown"}, pdu : {p \in GoodPdus : p.valid = 255}, keep : {0}]
    \cup [kind : {"short"}, pdu : {p \in GoodPdus : p.valid = 255}, keep : {1, 2, 21}]

ChunkBytes(c) ==
    LET b == EncodePdu(c.pdu)
    IN  CASE c.kind = "pdu" -> b
          [] c.kind = "badstart" -> <<2>> \o Tail(b)
          [] c.kind = "unknown" -> <<b[1], 9>> \o Tail(Tail(b))
          [] c.kind = "short" -> SubSeq(b, 1, c.keep)

RECURSIVE Flatten(_)
Flatten(cs) == IF cs = <<>> THEN <<>> ELSE ChunkBytes(Head(cs)) \o Flatten(Tail(cs))

\* a truncated PDU is the tail of its delivery
ChunkLists ==
    UNION { {s \in [1..n -> Chunks] : \A i \in 1..(n - 1) : s[i].kind # "short"} :
            n \in 0..MaxPdus }

\* the deliveries: the chunks and the bytes on the wire
Buffers == {[chunks |-> cs, data |-> Flatten(cs)] : cs \in ChunkLists}

-----------------------------------------------------------------------------
(* Staging store (serverdatabase.py) *)

NoTables == [t \in {} |-> <<>>]

\* ServerDatabase.__init__ on a new file: rows is what the connection sees,
\* committed what the file holds, txn whether a transaction is open
NewDatabase == [rows |-> NoTables, committed |-> NoTables, txn |-> FALSE]

\* mutant: CREATE TABLE after DROP TABLE IF EXISTS
create_sensor_table_anew(d, sensor) ==
    [rows |-> [t \in DOMAIN d.rows \union {sensor} |->
                  IF t = sensor THEN <<>> ELSE d.rows[t]],
     committed |-> d.committed,
     txn |-> d.txn]

\* CREATE TABLE IF NOT EXISTS; outside a transaction the statement is durable
create_sensor_table(d, sensor) ==
    IF sensor \in DOMAIN d.rows THEN d
    ELSE [rows |-> d.rows @@ (sensor :> <<>>),
          committed |-> IF d.txn THEN d.committed ELSE d.committed @@ (sensor :> <<>>),
          txn |-> d.txn]

RECURSIVE create_sensor_tables(_, _)
create_sensor_tables(d, sensors) ==
    IF sensors = <<>> THEN d
    ELSE create_sensor_tables(create_sensor_table(d, Head(sensors)), Tail(sensors))

\* INSERT INTO sensor VALUES (time, data...): opens a transaction
insert_sensor_data(d, sensor, time, data) ==
    IF sensor \notin DOMAIN d.rows
    THEN [error |-> "OperationalError", db |-> d]
    ELSE [error |-> "none",
          db |-> [d EXCEPT !.rows[sensor] = Append(@, <<time>> \o data), !.txn = TRUE]]

\* mutant: the commit writes nothing to the file
commit_nothing(d) == d

\* ServerDatabase.commit
commit(d) == [rows |-> d.rows, committed |-> d.rows, txn |-> FALSE]

\* the connection is dropped and ServerDatabase(name) is constructed again on
\* the same file: what was not committed is rolled back
reopen(d) == [rows |-> d.committed, committed |-> d.committed, txn |-> FALSE]

\* mutant: WHERE time > lo AND time < hi
BetweenExclusive(time, times) == times[1] < time /\ time < times[2]

\* WHERE time BETWEEN times[0] AND times[1]
Between(time, times) == times[1] <= time /\ time <= times[2]

RECURSIVE Where(_, _)
Where(rows, times) ==
    IF rows = <<>> THEN <<>>
    ELSE (IF Between(Head(rows)[1], times) THEN <<Head(rows)>> ELSE <<>>)
         \o Where(Tail(rows), times)

\* the row numbers in every order
RECURSIVE Perms(_)
Perms(S) ==
    IF S = {} THEN {<<>>}
    ELSE UNION {{<<x>> \o p : p \in Perms(S \ {x})} : x \in S}

\* mutant: ORDER BY time ASC
OrderedOldestFirst(rows, p) ==
    \A i, j \in DOMAIN p : i < j => rows[p[i]][1] <= rows[p[j]][1]

\* ORDER BY time DESC: p lists the row numbers newest-first
OrderedNewestFirst(rows, p) ==
    \A i, j \in DOMAIN p : i < j => rows[p[i]][1] >= rows[p[j]][1]

\* the orders ORDER BY time DESC may return the rows in (rows of equal time
\* come in an order SQLite does not promise)
Orderings(rows) == {p \in Perms(DOMAIN rows) : OrderedNewestFirst(rows, p)}

\* LIMIT n: a negative n is no limit
Limit(rows, n) == IF n < 0 \/ n >= Len(rows) THEN rows ELSE SubSeq(rows, 1, n)

\* the rows a SELECT on this connection sees
VisibleRows(d, sensor) == d.rows[sensor]

\* ServerDatabase.select_sensor_data_top_n_entries: the lists it may return
select_sensor_data_top_n_entries(d, sensor, n) ==
    LET rows == VisibleRows(d, sensor)
    IN  {Limit([i \in DOMAIN rows |-> rows[p[i]]], n) : p \in Orderings(rows)}

\* ServerDatabase.select_sensor_data_between_times: the rows of the table scan,
\* which goes through the table in the order of insertion
select_sensor_data_between_times(d, sensor, times) ==
    Where(VisibleRows(d, sensor), times)

\* ServerDatabase.select_sensor_data_top_n_entries_and_between_times: the
\* lists it may return
select_sensor_data_top_n_entries_and_between_times(d, sensor, n, times) ==
    LET rows == Where(VisibleRows(d, sensor), times)
    IN  {Limit([i \in DOMAIN rows |-> rows[p[i]]], n) : p \in Orderings(rows)}

-----------------------------------------------------------------------------
(* Ingestion of the Server (src/src/server.py, src/src/protocol_factory.py) *)

\* Server._initialise_database: one table per configured sensor; the sensors
\* configuration names the schema's fields (the bitfield and the epoch are not
\* sensors) but for status_ecu_connected, which it leaves out
config_sensors ==
    <<"rpm", "water_temp_c", "tps_perc", "battery_mv", "ext_5v_mv", "fuel_flow",
      "lambda", "speed_kph", "evo_scan_1", "status_engine">>

\* Server._save_sensor_data_to_database: insert in order, no commit
RECURSIVE save_sensor_data_to_database(_, _)
save_sensor_data_to_database(d, sensor_data) ==
    IF sensor_data = <<>> THEN [error |-> "none", db |-> d]
    ELSE LET s == Head(sensor_data)
             r == insert_sensor_data(d, s[1], s[2], <<s[3]>>)
         IN  IF r.error # "none" THEN r
             ELSE save_sensor_data_to_database(r.db, Tail(sensor_data))

\* del fields["epoch"]
DelEpoch(fields) ==
    IF "epoch" \in DictKeys(fields)
    THEN [error |-> "none", fields |-> DictDel(fields, "epoch")]
    ELSE [error |-> "KeyError", fields |-> fields]

\* Server._protocol_serve_fields, now being what time.time() returns
protocol_serve_fields(fields, now, d) ==
    LET epoch == IF "epoch" \in DictKeys(fields) THEN DictGet(fields, "epoch") ELSE now
        del == DelEpoch(fields)
        sensor_data == [i \in DOMAIN del.fields |->
                            <<del.fields[i][1], epoch, del.fields[i][2]>>]
    IN  IF del.error # "none" THEN [error |-> del.error, db |-> d]
        ELSE save_sensor_data_to_database(d, sensor_data)

StopServe(d, hs, err) == [db |-> d, handled |-> hs, error |-> err]

\* Protocol.decode_to(data, handler) with handler = _protocol_serve_fields: the
\* stream decoding of the codec (start byte, pdu id, length, fields with the
\* validity bit set), each record handed to the handler, errors raised
RECURSIVE decode_to(_, _, _, _, _)
decode_to(data, index, d, now, hs) ==
    IF ~(index < Len(data)) THEN StopServe(d, hs, "none")
    ELSE IF data[index + 1] # schema.start_byte THEN StopServe(d, hs, "FramingError")
    ELSE IF ~(index + 1 < Len(data)) THEN StopServe(d, hs, "ShortFrame")
    ELSE IF data[index + 2] \notin DOMAIN pdus THEN StopServe(d, hs, "UnknownPDU")
    ELSE LET pdu == pdus[data[index + 2]] IN
         IF Len(data) - index < 2 + pdu.length THEN StopServe(d, hs, "ShortFrame")
         ELSE LET fields == decode(pdu, <<>>,
                                   SubSeq(data, index + 3, index + 2 + pdu.length)).fields
                  h == CHOOSE x \in {protocol_serve_fields(fields, now, d)} : TRUE
                  hs2 == Append(hs, [fields |-> fields, now |-> now, error |-> h.error])
              IN  IF h.error # "none" THEN StopServe(h.db, hs2, h.error)
                  ELSE decode_to(data, index + 2 + pdu.length, h.db, now, hs2)

CodecErrors == {"FramingError", "UnknownPDU", "ShortFrame"}

\* one pass of the loop of Server._protocol_serve on the item recv() returns:
\* any exception is logged and ends the loop
protocol_serve(item, d, now) ==
    IF item.kind = "exception"
    THEN [db |-> d, handled |-> <<>>, error |-> "Exception", running |-> FALSE]
    ELSE LET r == CHOOSE x \in {decode_to(item.data, 0, d, now, <<>>)} : TRUE
         IN  [db |-> r.db, handled |-> r.handled, error |-> r.error,
              running |-> (r.error = "none")]

-----------------------------------------------------------------------------
(* Requests of the query server (src/src/restful.py)                       *)
(* A string is the sequence of its lexemes: the separators " ", "?", "/",  *)
(* "&", "=" and the words between them; "" is the empty sequence.          *)

\* the place of the first sep in str, 0 if there is none
Find(str, sep) ==
    IF \E i \in DOMAIN str : str[i] = sep
    THEN CHOOSE i \in DOMAIN str : str[i] = sep /\ \A j \in 1..(i - 1) : str[j] # sep
    ELSE 0

\* str.split(sep)
RECURSIVE Split(_, _)
Split(str, sep) ==
    LET i == Find(str, sep)
    IN  IF i = 0 THEN <<str>>
        ELSE <<SubSeq(str, 1, i - 1)>> \o Split(SubSeq(str, i + 1, Len(str)), sep)

\* list[i - 1] of Python raises IndexError unless the element is there
HasIndex(list, i) == i <= Len(list)

\* RestfulRequest.__init__ / _decode_request
RestfulRequest(request_str) ==
    LET split_space == Split(request_str, " ")
        split_question == Split(split_space[2], "?")
        dataset == split_question[1]
        split_and == Split(split_question[2], "&")
    IN  IF ~HasIndex(split_space, 2) THEN [error |-> "IndexError"]
        ELSE IF ~HasIndex(split_question, 2) THEN [error |-> "IndexError"]
        ELSE [error |-> "none",
              type |-> split_space[1],
              dataset |-> dataset,
              datasets |-> Tail(Split(dataset, "/")),
              filters |-> [i \in DOMAIN split_and |-> Split(split_and[i], "=")]]

-----------------------------------------------------------------------------
(* Query handlers of the Server (src/src/server.py) *)

\* Server._parse_configuration: self._config["sensors"], name -> config
sensors_config ==
    << <<"rpm", [enable |-> TRUE, group |-> "core"]>>,
       <<"water_temp_c", [enable |-> TRUE, group |-> "core"]>>,
       <<"tps_perc", [enable |-> TRUE, group |-> "core"]>>,
       <<"battery_mv", [enable |-> TRUE, group |-> "core"]>>,
       <<"ext_5v_mv", [enable |-> TRUE, group |-> "core"]>>,
       <<"fuel_flow", [enable |-> TRUE, group |-> "core"]>>,
       <<"lambda", [enable |-> TRUE, group |-> "core"]>>,
       <<"speed_kph", [enable |-> TRUE, group |-> "core"]>>,
       <<"evo_scan_1", [enable |-> TRUE, group |-> "aero"]>>,
       <<"status_engine", [enable |-> FALSE, group |-> "diagnostic"]>> >>

\* the number SQLite reads in the text an f-string puts into the statement
SqlNumbers == ("0" :> 0) @@ ("1" :> 1) @@ ("2" :> 2) @@ ("99" :> 99)

IsSqlNumber(text) == Len(text) = 1 /\ text[1] \in DOMAIN SqlNumbers

SqlNumber(text) == SqlNumbers[text[1]]

\* list.reverse()
Reverse(list) == [i \in DOMAIN list |-> list[Len(list) + 1 - i]]

\* for sensor_time, sensor_val in data_raw: data.extend([{"time": .., "value": ..}])
AsDicts(data_raw) == [i \in DOMAIN data_raw |-> [time |-> data_raw[i][1], value |-> data_raw[i][2]]]

\* the data as _restful_serve_sensor_get_data returns it
Reversed(data_raw) == Reverse(AsDicts(data_raw))

GotData(err, data_raw, op, n, times) ==
    [error |-> err, data |-> Reversed(data_raw), op |-> op, n |-> n, times |-> times]

\* Server._restful_serve_sensor_get_data: the outcomes it may have
restful_serve_sensor_get_data(sensor, filters, now, d) ==
    LET keys == DictKeys(filters)
        bad == {text \in {DictGet(filters, k) : k \in keys} : ~IsSqlNumber(text)}
        amount == SqlNumber(DictGet(filters, "amount"))
        times == <<SqlNumber(DictGet(filters, "timesince")), now>>
    IN  IF bad # {} THEN {GotData("OperationalError", <<>>, "none", 0, <<0, 0>>)}
        ELSE IF "amount" \in keys /\ "timesince" \notin keys
        THEN {GotData("none", data_raw, "top_n", amount, <<0, 0>>) :
                data_raw \in select_sensor_data_top_n_entries(d, sensor, amount)}
        ELSE IF "amount" \notin keys /\ "timesince" \in keys
        THEN {GotData("none", select_sensor_data_between_times(d, sensor, times),
                      "between_times", 0, times)}
        ELSE IF "amount" \in keys /\ "timesince" \in keys
        THEN {GotData("none", data_raw, "top_n_and_between_times", amount, times) :
                data_raw \in select_sensor_data_top_n_entries_and_between_times(
                                 d, sensor, amount, times)}
        ELSE {GotData("none", <<>>, "none", 0, <<0, 0>>)}

\* what a handler returns (response, epoch) or raises, with the store calls made
Served(err, response, epoch, ops) ==
    [error |-> err, response |-> response, epoch |-> epoch, ops |-> ops]

\* response[group][sensor] = sensor_data
SetSensorData(response, group, sensor, sensor_data) ==
    DictSet(response, group, DictSet(DictGet(response, group), sensor, sensor_data))

\* the loops of Server._restful_serve_sensors over self._config["sensors"], from
\* its i-th entry on; only is the group asked for, "" for all groups
RECURSIVE ServeSensorsFrom(_, _, _, _, _, _, _, _)
ServeSensorsFrom(i, only, response, epoch, ops, filters, now, d) ==
    IF i > Len(sensors_config) THEN {Served("none", response, epoch, ops)}
    ELSE LET sensor == sensors_config[i][1]
             config == sensors_config[i][2]
             with_group == IF config.group \in DictKeys(response) THEN response
                           ELSE DictSet(response, config.group, <<>>)
         IN  IF ~config.enable \/ (only # "" /\ config.group # only)
             THEN ServeSensorsFrom(i + 1, only, response, epoch, ops, filters, now, d)
             ELSE UNION {
                    IF got.error # "none" THEN {Served(got.error, <<>>, 0, ops)}
                    ELSE LET sensor_data == got.data
                             ops2 == Append(ops, [op |-> got.op, sensor |-> sensor,
                                                  n |-> got.n, times |-> got.times])
                         IN  IF Len(sensor_data) > 0
                             THEN ServeSensorsFrom(
                                      i + 1, only,
                                      SetSensorData(with_group, config.group, sensor,
                                                    sensor_data),
                                      IF sensor_data[Len(sensor_data)].time > epoch
                                      THEN sensor_data[Len(sensor_data)].time ELSE epoch,
                                      ops2, filters, now, d)
                             ELSE ServeSensorsFrom(i + 1, only, with_group, epoch, ops2,
                                                   filters, now, d)
                    : got \in restful_serve_sensor_get_data(sensor, filters, now, d)}

\* Server._restful_serve_sensors
restful_serve_sensors(request, filters, now, d) ==
    IF Len(request.datasets) = 1
    THEN ServeSensorsFrom(1, "", <<>>, 0, <<>>, filters, now, d)
    ELSE IF Len(request.datasets) = 2
    THEN IF \E sensor \in DictKeys(sensors_config) : request.datasets[2] = <<sensor>>
         THEN ServeSensorsFrom(1, request.datasets[2][1],
                               <<<<request.datasets[2][1], <<>>>>>>, 0, <<>>,
                               filters, now, d)
         ELSE {Served("FileNotFoundError", <<>>, 0, <<>>)}
    ELSE {Served("FileNotFoundError", <<>>, 0, <<>>)}

\* the loop of Server._restful_server_meta, from the i-th sensor on
RECURSIVE MetaFrom(_, _)
MetaFrom(i, response) ==
    IF i > Len(sensors_config) THEN response
    ELSE LET sensor == sensors_config[i][1]
             config == sensors_config[i][2]
             with_group == IF config.group \in DictKeys(response) THEN response
                           ELSE DictSet(response, config.group, <<>>)
         IN  IF ~config.enable THEN MetaFrom(i + 1, response)
             ELSE MetaFrom(i + 1, SetSensorData(with_group, config.group, sensor, "meta"))

\* Server._restful_server_meta
restful_server_meta(request, filters, now, d) ==
    IF ~HasIndex(request.datasets, 2) THEN {Served("IndexError", <<>>, 0, <<>>)}
    ELSE IF request.datasets[2] = <<"sensors">>
    THEN {Served("none", MetaFrom(1, <<>>), now, <<>>)}
    ELSE {Served("FileNotFoundError", <<>>, 0, <<>>)}

\* the loop of Server._restful_server_get_request over request.get_filters()
RECURSIVE ReadFilters(_, _)
ReadFilters(request_filters, filters) ==
    IF request_filters = <<>> THEN [error |-> "none", filters |-> filters]
    ELSE LET fil == Head(request_filters)
         IN  IF Len(fil) # 2 THEN [error |-> "ValueError", filters |-> filters]
             ELSE IF fil[1] = <<"amount">>
             THEN ReadFilters(Tail(request_filters), DictSet(filters, "amount", fil[2]))
             ELSE IF fil[1] = <<"timesince">>
             THEN ReadFilters(Tail(request_filters), DictSet(filters, "timesince", fil[2]))
             ELSE [error |-> "NotImplementedError", filters |-> filters]

\* Server._restful_server_get_request: what it raises for a dataset that has
\* no handler
UnknownDataset == "NotImplementedError"

\* Server._restful_server_get_request: filters = {"amount": 99}
DefaultFilters == <<<<"amount", <<"99">>>>>>

\* Server._restful_server_get_request
restful_server_get_request(request, now, d) ==
    LET read == ReadFilters(request.filters, DefaultFilters)
    IN  IF read.error # "none" THEN {Served(read.error, <<>>, 0, <<>>)}
        ELSE IF ~HasIndex(request.datasets, 1) THEN {Served("IndexError", <<>>, 0, <<>>)}
        ELSE IF request.datasets[1] = <<"sensors">>
        THEN restful_serve_sensors(request, read.filters, now, d)
        ELSE IF request.datasets[1] = <<"meta">>
        THEN restful_server_meta(request, read.filters, now, d)
        ELSE {Served(UnknownDataset, <<>>, 0, <<>>)}

\* Server._restful_serve
restful_serve(request, now, d) ==
    IF request.type = <<"GET">> THEN restful_server_get_request(request, now, d)
    ELSE {Served("NotImplementedError", <<>>, 0, <<>>)}

-----------------------------------------------------------------------------
(* Restful._websocket_serve (src/src/restful.py) *)

NoReply == [status |-> 0, result |-> <<>>, epoch |-> 0]

\* the exceptions _websocket_serve turns into a status
StatusOf ==
    ("NotImplementedError" :> 501) @@ ("SystemError" :> 500)
    @@ ("FileNotFoundError" :> 404)

\* the value of a Python tuple; a dict is the sequence of its items
PyTuple(items) == [type |-> "tuple", value |-> items]

IsPyTuple(v) == DOMAIN v = {"type", "value"}

Max(S) == CHOOSE x \in S : \A y \in S : y <= x

\* "Find the most recent epoch": result.items() exists for a dict only, the
\* AttributeError of any other value is caught nowhere in the loop
MostRecentEpoch(result) ==
    IF IsPyTuple(result) THEN [error |-> "AttributeError", epoch |-> 0]
    ELSE [error |-> "none",
          epoch |-> Max({0} \union UNION {
                        {result[g][2][k][2][Len(result[g][2][k][2])].time :
                            k \in DOMAIN result[g][2]} : g \in DOMAIN result})]

\* mutant: an undecodable request ends the handler
DecodeErrorFatal(served) ==
    [reply |-> NoReply, ended |-> TRUE, served |-> served]

\* except Exception around RestfulRequest(request): status 400, the reply is sent
DecodeErrorReplied(served) ==
    [reply |-> [status |-> 400, result |-> <<>>, epoch |-> 0], ended |-> FALSE,
     served |-> served]

\* one pass of the loop of _websocket_serve on the request line received:
\* the reply sent (NoReply if none), whether an exception ended the handler,
\* and what the request callable returned or raised
websocket_serve(request_str, now, d) ==
    LET request == RestfulRequest(request_str)
    IN  IF request.error # "none"
        THEN {DecodeErrorReplied(Served(request.error, <<>>, 0, <<>>))}
        ELSE {IF served.error = "none"
              THEN LET result == PyTuple(<<served.response, served.epoch>>)
                       epoch == MostRecentEpoch(result)
                   IN  IF epoch.error # "none"
                       THEN [reply |-> NoReply, ended |-> TRUE, served |-> served]
                       ELSE [reply |-> [status |-> 200, result |-> result,
                                        epoch |-> epoch.epoch],
                             ended |-> FALSE, served |-> served]
              ELSE IF served.error \in DOMAIN StatusOf
              THEN [reply |-> [status |-> StatusOf[served.error], result |-> <<>>,
                               epoch |-> 0],
                    ended |-> FALSE, served |-> served]
              ELSE [reply |-> NoReply, ended |-> TRUE, served |-> served]
              : served \in restful_serve(request, now, d)}

-----------------------------------------------------------------------------
(* Legacy server (src/server.py, src/protocol.py) *)

AIPDU == 1
ACPDU == 2
AAPDU == 3
ADPDU == 4
APPDU == 5
ASPDU == 6
AMPDU == 7

CAR == 1
CAR_EMULATOR == 2
GUI == 3

\* Server._initialise_database
legacy_sensors ==
    <<"rpm", "water_temp_c", "tps_perc", "battery_mv", "ext_5v_mv",
      "fuel_flow", "lambda", "speed_kph", "evo_scan_1", "evo_scan_2",
      "evo_scan_3", "evo_scan_4", "evo_scan_5", "evo_scan_6", "evo_scan_7",
      "status_ecu_connected", "status_engine", "status_battery", "status_logging",
      "inj_time", "inj_duty_cycle", "lambda_pid_adj", "lambda_pid_target",
      "advance", "ride_height_fl_cm", "ride_height_fr_cm", "ride_height_flw_cm",
      "ride_height_rear_cm", "lap_time_s", "accel_fl_x_mg", "accel_fl_y_mg",
      "accel_fl_z_mg">>

\* the sensors each data-PDU handler (_on_acpdu .. _on_ampdu) stores, in order
handler_sensors ==
    (ACPDU :> <<"rpm", "water_temp_c", "tps_perc", "battery_mv", "ext_5v_mv",
                "fuel_flow", "lambda", "speed_kph">>)
    @@ (AAPDU :> <<"evo_scan_1", "evo_scan_2", "evo_scan_3", "evo_scan_4",
                   "evo_scan_5", "evo_scan_6", "evo_scan_7">>)
    @@ (ADPDU :> <<"status_ecu_connected", "status_engine", "status_battery",
                   "status_logging">>)
    @@ (APPDU :> <<"inj_time", "inj_duty_cycle", "lambda_pid_adj",
                   "lambda_pid_target", "advance">>)
    @@ (ASPDU :> <<"ride_height_fl_cm", "ride_height_fr_cm", "ride_height_flw_cm",
                   "ride_height_rear_cm">>)
    @@ (AMPDU :> <<"lap_time_s", "accel_fl_x_mg", "accel_fl_y_mg", "accel_fl_z_mg">>)

\* mutant: the samples are not inserted
legacy_save_nothing(d, sensor_data) == [error |-> "none", db |-> d]

\* legacy Server._save_sensor_data_to_database: insert in order, then commit
legacy_save_sensor_data_to_database(d, sensor_data) ==
    LET r == save_sensor_data_to_database(d, sensor_data)
    IN  IF r.error # "none" THEN r ELSE [error |-> "none", db |-> commit(r.db)]

\* sensor_data of a data-PDU handler: (name, time_ms, value) per field
handler_sensor_data(frame_type, vals, time_ms) ==
    [i \in DOMAIN handler_sensors[frame_type] |->
        <<handler_sensors[frame_type][i], time_ms, vals[i]>>]

-----------------------------------------------------------------------------
(* Codec specification *)

CodecInit ==
    /\ pdu_fields = [id \in DOMAIN pdus |-> <<>>]
    /\ chunks = <<>>
    /\ received = [parsed |-> Stop([id \in DOMAIN pdus |-> <<>>], <<>>, "none", 0),
                   propagated |-> FALSE]
    /\ pre = [id \in DOMAIN pdus |-> <<>>]
    /\ prev_failed = FALSE

\* the transport hands one buffer to Protocol.data_received
Deliver(b) ==
    /\ chunks' = b.chunks
    /\ received' = data_received(b.data, pdu_fields)
    /\ pdu_fields' = received'.parsed.fields
    /\ pre' = pdu_fields
    /\ prev_failed' = (received.parsed.error # "none")

\* the last _parse_data call: handler invocations, exception, final index
calls == received.parsed.calls
error == received.parsed.error
stop_index == received.parsed.index
propagated == received.propagated

-----------------------------------------------------------------------------
(* The parts of the state a specification leaves alone *)

NoQuery ==
    [op |-> "none", sensor |-> "", n |-> 0, times |-> <<0, 0>>, result |-> {},
     error |-> "none"]

Factories == {"f1", "f2"}

NoPdu == [type |-> 0, vals |-> <<>>, time_ms |-> 0]

StoreIdle == db = NewDatabase /\ query = NoQuery /\ durable = NoTables

ServeIdle ==
    /\ queue = <<>>
    /\ running = TRUE
    /\ serve_error = "none"
    /\ handled = <<>>
    /\ n_put = 0

LegacyIdle ==
    /\ car_clients = <<>>
    /\ gui_clients = <<>>
    /\ written = [f \in Factories |-> <<>>]
    /\ routing = FALSE
    /\ pending = NoPdu
    /\ todo = <<>>
    /\ n_events = 0
    /\ lost = [f \in Factories |-> -1]

NoGot == [sensor |-> "", filters |-> <<>>, now |-> 0,
          out |-> GotData("none", <<>>, "none", 0, <<0, 0>>)]

WsIdle == [state |-> "serving", request |-> <<>>, reply |-> NoReply,
           served |-> Served("none", <<>>, 0, <<>>), previous |-> <<>>]

RestIdle ==
    /\ keep_alive = TRUE
    /\ ws = WsIdle
    /\ n_requests = 0
    /\ get_data = NoGot

-----------------------------------------------------------------------------
(* State of the push to the back ends (src/src/socket_io/__init__.py) *)

\* SocketIO.clients, in the order of the dict
server_order == <<"cloud", "sufst_vm">>

Servers == {server_order[i] : i \in DOMAIN server_order}

\* config.socket_io[server]["emulation"]: cloud gets the car, sufst_vm the
\* emulation
socket_io_emulation == [server \in Servers |-> server = "sufst_vm"]

\* Namespace.__init__; CarNamespace.__init__ registers _handle_protocol_pdu
\* at once, EmulationNamespace registers its consumer in on_connect
NewNamespace(server) ==
    [datastore |-> <<>>,
     job |-> "none",
     registered |-> ~socket_io_emulation[server],
     flushing |-> FALSE,
     adding |-> <<>>]

\* what became of the values handed to a namespace, and the number of values
\* produced when its job was removed and when its channel closed
NoAudit == [enqueued |-> {}, dropped |-> {}, key_errors |-> {},
            removed_at |-> 0, disconnected_at |-> 0]

SioIdle ==
    [pc |-> "idle", server |-> 0, retry |-> 0, depth |-> 0,
     attempts |-> [server \in Servers |-> 0], health_jobs |-> 0, restarts |-> 0,
     error |-> "none"]

\* CarEmulator.__init__: an empty queue.Queue; _serve has x = 0 and sleeps
EmuIdle ==
    [x |-> 0, epoch |-> 0, i |-> 0, queue |-> <<>>, generated |-> <<>>,
     inserted |-> <<>>, task |-> "running"]

\* Server before serve_forever runs the event loop
ServerIdle == [state |-> "serving", appended |-> <<>>]

\* ProtocolFactory.serve: one ProtocolClient, no peer accepted yet
TcpIdle ==
    [connected |-> [p \in {"p1", "p2"} |-> FALSE], accepted |-> {}, queue |-> <<>>,
     tasks |-> 0, put |-> <<>>, decoded |-> {}, errors |-> {}]

\* Protocol before start()
SessionIdle ==
    [variant |-> "socket", state |-> [s \in {"s1", "s2"} |-> "none"], calls |-> <<>>,
     error |-> "none"]

\* no legacy PDU is being packed
WireIdle == [phase |-> "none", pdu |-> <<>>, buffer |-> <<>>, unpacked |-> <<>>]

\* plugins.schema before a descriptor is made or a delivery parsed
PluginIdle ==
    [phase |-> "none", made_by |-> "none", pdu |-> <<>>, error |-> "none",
     chunks |-> <<>>, calls |-> <<>>, fields |-> [id \in DOMAIN pdus |-> <<>>],
     received |-> 0]

\* XBee transport opened, nothing received yet
XBeeIdle ==
    [variant |-> "factory", delivered |-> <<>>, ready |-> <<>>, queue |-> <<>>,
     decoded |-> <<>>, fields |-> [id \in DOMAIN pdus |-> <<>>], running |-> TRUE]

\* the scheduler before SocketIO.start: no job added
SchedulerIdle ==
    [emit_jobs |-> [server \in Servers |-> 0], handlers |-> [server \in Servers |-> 0],
     health |-> {}, health_job |-> 0, added |-> 0, lookup_errors |-> 0]

AppIdle == emu = EmuIdle /\ event_loop = ServerIdle /\ tcp = TcpIdle /\ session = SessionIdle /\ wire = WireIdle /\ plugin = PluginIdle /\ xbee = XBeeIdle /\ scheduler = SchedulerIdle

BrokerIdle ==
    /\ clients = [server \in Servers |-> FALSE]
    /\ reachable = [server \in Servers |-> "up"]
    /\ namespaces = [server \in Servers |-> NewNamespace(server)]
    /\ emitted = [server \in Servers |-> <<>>]
    /\ n_produced = 0
    /\ audit = [server \in Servers |-> NoAudit]
    /\ sio = SioIdle

Init == CodecInit /\ StoreIdle /\ ServeIdle /\ LegacyIdle /\ RestIdle /\ BrokerIdle /\ AppIdle /\ clock = 0

Next ==
    \E b \in Buffers :
        Deliver(b) /\ UNCHANGED <<appVars, storeVars, serveVars, legacyVars, restVars, brokerVars, clock>>

Spec == Init /\ [][Next]_vars

-----------------------------------------------------------------------------
(* Store specification: one connection to a new database file *)

StoreSensors == {"rpm", "lambda"}
StoreTimes == {1, 2}

\* the bounds of a time range: below, at and between the times of the samples
QueryTimes == {0, 1, 2}

\* the value of the k-th appended sample, which tells samples of equal time apart
StoreValue(k) == 10 * k

RECURSIVE RowCount(_, _)
RowCount(rows, sensors) ==
    IF sensors = {} THEN 0
    ELSE LET s == CHOOSE x \in sensors : TRUE
         IN  Len(rows[s]) + RowCount(rows, sensors \ {s})

Query(op, sensor, n, times, result, err) ==
    [op |-> op, sensor |-> sensor, n |-> n, times |-> times, result |-> result,
     error |-> err]

CreateSensorTable(sensor) ==
    /\ db' = create_sensor_table(db, sensor)
    /\ query' = Query("create", sensor, 0, <<0, 0>>, {}, "none")
    /\ UNCHANGED durable

InsertSensorData(sensor, time, value) ==
    /\ RowCount(db.rows, DOMAIN db.rows) < MaxRows
    /\ LET r == insert_sensor_data(db, sensor, time, <<value>>)
       IN  /\ db' = r.db
           /\ query' = Query("insert", sensor, 0, <<0, 0>>, {}, r.error)
    /\ UNCHANGED durable

Commit ==
    /\ db' = commit(db)
    /\ durable' = db.rows
    /\ query' = Query("commit", "", 0, <<0, 0>>, {}, "none")

\* del database; ServerDatabase(name)
Reopen ==
    /\ db' = reopen(db)
    /\ query' = Query("reopen", "", 0, <<0, 0>>, {}, "none")
    /\ UNCHANGED durable

SelectBetweenTimes(sensor, times) ==
    /\ sensor \in DOMAIN db.rows
    /\ query' = Query("between_times", sensor, 0, times,
                      {select_sensor_data_between_times(db, sensor, times)}, "none")
    /\ UNCHANGED <<db, durable>>

SelectTopN(sensor, n) ==
    /\ sensor \in DOMAIN db.rows
    /\ query' = Query("top_n", sensor, n, <<0, 0>>,
                      select_sensor_data_top_n_entries(db, sensor, n), "none")
    /\ UNCHANGED <<db, durable>>

StoreInit == CodecInit /\ StoreIdle /\ ServeIdle /\ LegacyIdle /\ RestIdle /\ BrokerIdle /\ AppIdle /\ clock = 0

StoreNext ==
    /\ \/ \E sensor \in StoreSensors : CreateSensorTable(sensor)
       \/ \E sensor \in StoreSensors, time \in StoreTimes :
              InsertSensorData(sensor, time,
                               StoreValue(RowCount(db.rows, DOMAIN db.rows) + 1))
       \/ Commit
       \/ Reopen
       \/ \E sensor \in StoreSensors, lo \in QueryTimes, hi \in QueryTimes :
              SelectBetweenTimes(sensor, <<lo, hi>>)
       \/ \E sensor \in StoreSensors, n \in 0..(MaxRows + 1) : SelectTopN(sensor, n)
    /\ UNCHANGED <<codecVars, appVars, serveVars, legacyVars, restVars, brokerVars, clock>>

SpecStore == StoreInit /\ [][StoreNext]_vars

-----------------------------------------------------------------------------
(* Ingestion specification: one client of the Server *)

AeroA == [kind |-> "pdu", pdu |-> [id |-> 1, valid |-> 3, vals |-> <<7, 513>>], keep |-> 0]
AeroB == [kind |-> "pdu", pdu |-> [id |-> 1, valid |-> 3, vals |-> <<9, 300>>], keep |-> 0]
DiagA ==
    [kind |-> "pdu", pdu |-> [id |-> 2, valid |-> 7, vals |-> <<5, 1, 2>>], keep |-> 0]
AeroNoEpoch ==
    [kind |-> "pdu", pdu |-> [id |-> 1, valid |-> 2, vals |-> <<7, 513>>], keep |-> 0]
BadStart ==
    [kind |-> "badstart", pdu |-> [id |-> 0, valid |-> 255, vals |-> E1Values], keep |-> 0]
Unknown ==
    [kind |-> "unknown", pdu |-> [id |-> 0, valid |-> 255, vals |-> E1Values], keep |-> 0]
Short ==
    [kind |-> "short", pdu |-> [id |-> 0, valid |-> 255, vals |-> E1Values], keep |-> 2]

ServeChunkLists ==
    {<<AeroA>>, <<AeroA, AeroB>>, <<AeroNoEpoch>>, <<DiagA>>, <<BadStart>>, <<Unknown>>,
     <<Short>>}

\* what the transport puts on the client's queue
ServeItems ==
    {[kind |-> "bytes", chunks |-> cs, data |-> Flatten(cs)] : cs \in ServeChunkLists}

LostItem == [kind |-> "exception", chunks |-> <<>>, data |-> <<>>]

\* connection_lost has been called: the transport delivers nothing after it
ConnectionLost ==
    \/ serve_error = "Exception"
    \/ \E i \in DOMAIN queue : queue[i].kind = "exception"

\* ProtocolFactorySocket.data_received -> ProtocolClient.put
SocketDataReceived(item) ==
    /\ n_put < MaxPut
    /\ ~ConnectionLost
    /\ queue' = Append(queue, item)
    /\ n_put' = n_put + 1
    /\ UNCHANGED <<running, serve_error, handled, db, clock>>

\* ProtocolFactorySocket.connection_lost -> ProtocolClient.put(Exception())
SocketConnectionLost ==
    /\ n_put < MaxPut
    /\ ~ConnectionLost
    /\ queue' = Append(queue, LostItem)
    /\ n_put' = n_put + 1
    /\ UNCHANGED <<running, serve_error, handled, db, clock>>

\* one pass of the while loop of Server._protocol_serve
ProtocolServe(now) ==
    /\ running
    /\ queue # <<>>
    /\ LET r == CHOOSE x \in {protocol_serve(Head(queue), db, now)} : TRUE
       IN  /\ db' = r.db
           /\ handled' = r.handled
           /\ serve_error' = r.error
           /\ running' = r.running
    /\ queue' = Tail(queue)
    /\ clock' = now
    /\ UNCHANGED n_put

ServeInit ==
    /\ CodecInit /\ LegacyIdle /\ ServeIdle /\ RestIdle /\ BrokerIdle /\ AppIdle
    /\ clock = 0
    /\ db = create_sensor_tables(NewDatabase, config_sensors)
    /\ query = NoQuery
    /\ durable = NoTables

ServeNext ==
    /\ \/ \E item \in ServeItems : SocketDataReceived(item)
       \/ SocketConnectionLost
       \/ \E now \in {clock, clock + 1} : ProtocolServe(now)
    /\ UNCHANGED <<codecVars, appVars, legacyVars, restVars, brokerVars, query, durable>>

SpecServe == ServeInit /\ [][ServeNext]_vars

-----------------------------------------------------------------------------
(* Legacy server specification: AIPDU, data PDUs and lost connections *)

ClientTypes == {CAR, CAR_EMULATOR, GUI}

DataPdus == DOMAIN handler_sensors

\* the values a data PDU of this type carries
PduValues(frame_type) == [i \in DOMAIN handler_sensors[frame_type] |-> 10 * frame_type + i]

\* Server._on_aipdu: echo the AIPDU, then register the client
OnAipdu(factory, client_type) ==
    /\ ~routing
    /\ n_events < MaxEvents
    /\ n_events' = n_events + 1
    /\ written' = [written EXCEPT ![factory] =
                      Append(@, [type |-> AIPDU, vals |-> <<client_type>>, time_ms |-> 0])]
    /\ IF factory \notin DictKeys(car_clients) \/ factory \notin DictKeys(gui_clients)
       THEN IF client_type = CAR \/ client_type = CAR_EMULATOR
            THEN /\ car_clients' = DictSet(car_clients, factory, client_type)
                 /\ UNCHANGED gui_clients
            ELSE /\ gui_clients' = DictSet(gui_clients, factory, client_type)
                 /\ UNCHANGED car_clients
       ELSE UNCHANGED <<car_clients, gui_clients>>
    /\ lost' = [lost EXCEPT ![factory] = -1]
    /\ UNCHANGED <<routing, pending, todo, db, clock>>

\* Server._on_lost
OnLost(factory) ==
    /\ ~routing
    /\ factory \in DictKeys(gui_clients) \union DictKeys(car_clients)
    /\ IF factory \in DictKeys(gui_clients)
       THEN /\ gui_clients' = DictDel(gui_clients, factory)
            /\ UNCHANGED car_clients
       ELSE /\ car_clients' = DictDel(car_clients, factory)
            /\ UNCHANGED gui_clients
    /\ lost' = [lost EXCEPT ![factory] = n_events]
    /\ UNCHANGED <<written, routing, pending, todo, n_events, db, clock>>

\* Server._on_acpdu .. _on_ampdu, up to the loop over the GUI clients
OnDataPdu(frame_type, now) ==
    /\ ~routing
    /\ n_events < MaxEvents
    /\ n_events' = n_events + 1
    /\ clock' = now
    /\ LET vals == PduValues(frame_type)
           r == legacy_save_sensor_data_to_database(
                    db, handler_sensor_data(frame_type, vals, now))
       IN  /\ db' = r.db
           /\ pending' = [type |-> frame_type, vals |-> vals, time_ms |-> now]
           /\ todo' = IF r.error = "none"
                      THEN [i \in DOMAIN gui_clients |-> gui_clients[i][1]] ELSE <<>>
           /\ routing' = (todo' # <<>>)
    /\ UNCHANGED <<car_clients, gui_clients, written, lost>>

\* one pass of the loop over the GUI clients: write_acpdu(client.factory, ...)
RouteWrite ==
    /\ routing
    /\ written' = [written EXCEPT ![Head(todo)] = Append(@, pending)]
    /\ todo' = Tail(todo)
    /\ routing' = (todo' # <<>>)
    /\ UNCHANGED <<car_clients, gui_clients, pending, n_events, lost, db, clock>>

LegacyInit ==
    /\ CodecInit /\ ServeIdle /\ LegacyIdle /\ RestIdle /\ BrokerIdle /\ AppIdle
    /\ clock = 0
    /\ db = create_sensor_tables(NewDatabase, legacy_sensors)
    /\ query = NoQuery
    /\ durable = NoTables

LegacyNext ==
    /\ \/ \E factory \in Factories, client_type \in ClientTypes : OnAipdu(factory, client_type)
       \/ \E factory \in Factories : OnLost(factory)
       \/ \E frame_type \in DataPdus, now \in {clock, clock + 1} : OnDataPdu(frame_type, now)
       \/ RouteWrite
    /\ UNCHANGED <<codecVars, appVars, serveVars, restVars, brokerVars, query, durable>>

SpecLegacy == LegacyInit /\ [][LegacyNext]_vars

-----------------------------------------------------------------------------
(* Query specification: one connection to the query server, on a store the *)
(* ingestion has filled                                                    *)

\* the series samples have been appended to
RestSensors == {"rpm", "evo_scan_1"}

\* the stores after at most k appends
RECURSIVE Populated(_)
Populated(k) ==
    IF k = 0 THEN {create_sensor_tables(NewDatabase, config_sensors)}
    ELSE LET before == Populated(k - 1)
         IN  before \union
             {insert_sensor_data(d, sensor, time,
                                 <<StoreValue(RowCount(d.rows, DOMAIN d.rows) + 1)>>).db :
                 d \in before, sensor \in RestSensors, time \in StoreTimes}

RestDatabases == Populated(MaxSamples)

\* request lines, as lexemes
Requests ==
    {<<"GET", " ", "/", "sensors", "?", "amount", "=", "1">>,
     <<"GET", " ", "/", "sensors", "?", "amount", "=", "2">>,
     <<"GET", " ", "/", "sensors", "?", "timesince", "=", "2">>,
     <<"GET", " ", "/", "sensors", "?", "amount", "=", "1", "&", "timesince", "=", "1">>,
     <<"GET", " ", "/", "sensors", "?">>,
     <<"GET", " ", "/", "sensors", "?", "amount", "=", "x">>,
     <<"GET", " ", "/", "sensors">>,
     <<"garbage">>,
     <<"GET", " ", "/", "foo", "?", "amount", "=", "1">>,
     <<"POST", " ", "/", "sensors", "?", "amount", "=", "1">>,
     <<"GET", " ", "/", "sensors", "/", "core", "?", "amount", "=", "1">>,
     <<"GET", " ", "/", "sensors", "/", "none", "?", "amount", "=", "1">>,
     <<"GET", " ", "/", "sensors", "/", "a", "/", "b", "?", "amount", "=", "1">>,
     <<"GET", " ", "/", "meta", "/", "sensors", "?", "amount", "=", "1">>,
     <<"GET", " ", "/", "meta", "/", "foo", "?", "amount", "=", "1">>}

\* one pass of the loop of Restful._websocket_serve: recv, serve, send
WebsocketServe(request_str, now) ==
    /\ ws.state = "serving"
    /\ keep_alive
    /\ n_requests < MaxRequests
    /\ \E out \in websocket_serve(request_str, now, db) :
           ws' = [state |-> IF out.ended THEN "failed" ELSE "serving",
                  request |-> request_str, reply |-> out.reply, served |-> out.served,
                  previous |-> ws.request]
    /\ n_requests' = n_requests + 1
    /\ clock' = now
    /\ UNCHANGED <<keep_alive, get_data>>

\* the loop condition is false: websocket.close()
WebsocketClose ==
    /\ ws.state = "serving"
    /\ ~keep_alive
    /\ ws' = [ws EXCEPT !.state = "closed"]
    /\ UNCHANGED <<keep_alive, n_requests, get_data, clock>>

\* the client closes: recv raises ConnectionClosedOK
ClientClose ==
    /\ ws.state = "serving"
    /\ keep_alive
    /\ ws' = [ws EXCEPT !.state = "closed"]
    /\ UNCHANGED <<keep_alive, n_requests, get_data, clock>>

RestInit ==
    /\ CodecInit /\ ServeIdle /\ LegacyIdle /\ BrokerIdle /\ AppIdle
    /\ clock = 1
    /\ db \in RestDatabases
    /\ query = NoQuery
    /\ durable = NoTables
    /\ keep_alive \in BOOLEAN
    /\ ws = WsIdle
    /\ n_requests = 0
    /\ get_data = NoGot

RestNext ==
    /\ \/ \E request_str \in Requests, now \in {clock, clock + 1} :
              WebsocketServe(request_str, now)
       \/ WebsocketClose
       \/ ClientClose
    /\ UNCHANGED <<codecVars, appVars, serveVars, legacyVars, storeVars, brokerVars>>

SpecRest == RestInit /\ [][RestNext]_vars

-----------------------------------------------------------------------------
(* Specification of Server._restful_serve_sensor_get_data called by itself *)

\* the filter dictionaries: amount, timesince, both, neither
FilterSets ==
    LET amounts == {<<<<"amount", <<a>>>>>> : a \in {"1", "2"}}
        since == {<<<<"timesince", <<t>>>>>> : t \in {"0", "1", "2"}}
    IN  {<<>>} \union amounts \union since \union {a \o t : a \in amounts, t \in since}

ServeSensorGetData(sensor, filters, now) ==
    /\ \E out \in restful_serve_sensor_get_data(sensor, filters, now, db) :
           get_data' = [sensor |-> sensor, filters |-> filters, now |-> now, out |-> out]
    /\ clock' = now
    /\ UNCHANGED <<keep_alive, ws, n_requests>>

GetDataInit ==
    /\ CodecInit /\ ServeIdle /\ LegacyIdle /\ RestIdle /\ BrokerIdle /\ AppIdle
    /\ clock = 1
    /\ db \in RestDatabases
    /\ query = NoQuery
    /\ durable = NoTables

GetDataNext ==
    /\ \E sensor \in RestSensors, filters \in FilterSets, now \in {1, 2} :
           ServeSensorGetData(sensor, filters, now)
    /\ UNCHANGED <<codecVars, appVars, serveVars, legacyVars, storeVars, brokerVars>>

SpecGetData == GetDataInit /\ [][GetDataNext]_vars

-----------------------------------------------------------------------------
(* What a delivery is expected to yield, stated on its chunks *)

RECURSIVE GoodPrefixLen(_)
GoodPrefixLen(cs) ==
    IF cs = <<>> \/ Head(cs).kind # "pdu" THEN 0 ELSE 1 + GoodPrefixLen(Tail(cs))

GoodPrefix(cs) == SubSeq(cs, 1, GoodPrefixLen(cs))

\* the fields of PDU p whose validity bit is set
ValidNames(p) ==
    LET names == pdus[p.id].fields_names
    IN  {names[i] : i \in {j \in DOMAIN names : (p.valid \div (2 ^ (j - 1))) % 2 = 1}}

\* the value PDU p carries for field name
SentValue(p, name) ==
    LET names == pdus[p.id].fields_names
    IN  p.vals[CHOOSE i \in DOMAIN names : names[i] = name]

\* call c is the record of PDU p: its name, and its valid fields with their values
RecordOf(c, p) ==
    /\ c.name = pdus[p.id].name
    /\ ValidNames(p) \subseteq DictKeys(c.fields)
    /\ \A n \in ValidNames(p) : DictGet(c.fields, n) = SentValue(p, n)

\* samples a handler emits for its calls: one per field of the map
RECURSIVE SampleCount(_)
SampleCount(cs) == IF cs = <<>> THEN 0 ELSE Len(Head(cs).fields) + SampleCount(Tail(cs))

E1Pdu == [kind |-> "pdu", pdu |-> [id |-> 0, valid |-> 255, vals |-> E1Values], keep |-> 0]
E2Pdu == [kind |-> "pdu", pdu |-> [id |-> 0, valid |-> 1, vals |-> E1Values], keep |-> 0]

-----------------------------------------------------------------------------
(* Claims on the codec *)

\* C1: the field map handed to the handler holds exactly the fields whose
\* validity bit is set in that PDU, whatever was decoded before; E1 then E2
\* emits 8 + 1 = 9 samples.
C1_FieldMapExactlyValid ==
    /\ \A i \in 1..Len(calls) :
          DictKeys(calls[i].fields) = ValidNames(chunks[i].pdu)
    /\ (chunks = <<E1Pdu, E2Pdu>>) => SampleCount(calls) = 9

\* C2: a buffer of exactly one well-formed PDU of a registered type gives one
\* handler invocation for that PDU, no error, and the index at the buffer's end.
C2_SinglePduDecoded ==
    (Len(chunks) = 1 /\ chunks[1].kind = "pdu") =>
        /\ Len(calls) = 1
        /\ RecordOf(calls[1], chunks[1].pdu)
        /\ error = "none"
        /\ stop_index = Len(Flatten(chunks))

C2_Witness ==
    /\ chunks = <<E1Pdu>>
    /\ Len(calls) = 1
    /\ stop_index = 22

\* C3: decoding P1 ++ P2 in one call invokes the handlers as decoding P1 and
\* then P2 in two calls on the same Protocol does.
C3_ConcatEqualsSeparate ==
    (Len(chunks) = 2 /\ chunks[1].kind = "pdu" /\ chunks[2].kind = "pdu") =>
        LET first == parse_data(ChunkBytes(chunks[1]), pre)
            second == parse_data(ChunkBytes(chunks[2]), first.fields)
        IN  /\ first.error = "none" /\ second.error = "none" /\ error = "none"
            /\ calls = first.calls \o second.calls
            /\ pdu_fields = second.fields

C3_Witness ==
    /\ Len(chunks) = 2 /\ chunks[1].kind = "pdu" /\ chunks[2].kind = "pdu"
    /\ chunks[1].pdu.id # chunks[2].pdu.id
    /\ Len(calls) = 2
    /\ pre[0] # <<>>

C6_BadHeaderRejected ==
    LET k == GoodPrefixLen(chunks)
    IN  (k < Len(chunks) /\ chunks[k + 1].kind \in {"badstart", "unknown"}) =>
            /\ error = (IF chunks[k + 1].kind = "badstart"
                        THEN "Invalid start byte" ELSE "Invalid PDU type")
            /\ Len(calls) = k
            /\ pdu_fields = parse_data(Flatten(GoodPrefix(chunks)), pre).fields

C6_Witness ==
    /\ Len(chunks) = 2
    /\ chunks[1].kind = "pdu" /\ chunks[2].kind = "badstart"
    /\ Len(calls) = 1
    /\ error = "Invalid start byte"

\* C7: when fewer than 2 + fixed_length bytes remain at the index, decoding
\* fails with the short-frame error, the descriptor's fields are untouched and
\* no handler is invoked for that PDU.
C7_ShortFrameRejected ==
    LET k == GoodPrefixLen(chunks)
    IN  (k < Len(chunks) /\ chunks[k + 1].kind = "short") =>
            /\ error = "Invalid data length"
            /\ Len(calls) = k
            /\ pdu_fields = parse_data(Flatten(GoodPrefix(chunks)), pre).fields

-----------------------------------------------------------------------------
(* Claims on the ingestion of the Server *)

\* C5: after a delivery whose decoding raises a codec error (bad start byte,
\* unknown PDU, short frame) _protocol_serve drops that buffer and keeps
\* serving the client, so that the next delivery is decoded and stored.
C5_KeepsServingAfterCodecError ==
    serve_error \in CodecErrors => running

\* the sample (name, epoch, value) is a row of the series name
Stored(name, epoch, value) ==
    \E k \in DOMAIN db.rows[name] : db.rows[name][k] = <<epoch, value>>

\* C8: every record handed to _protocol_serve_fields is stored as one sample
\* per field other than epoch, stamped with the record's epoch or, when it has
\* none, with the receiver's clock, and no error is raised.
C8_EverySampleStored ==
    \A i \in DOMAIN handled :
        LET h == handled[i]
            epoch == IF "epoch" \in DictKeys(h.fields)
                     THEN DictGet(h.fields, "epoch") ELSE h.now
        IN  /\ h.error = "none"
            /\ \A name \in DictKeys(h.fields) \ {"epoch"} :
                   Stored(name, epoch, DictGet(h.fields, name))

\* C14: when a record has a field whose series was never created, the append
\* of that sample fails and leaves the store as it was, only that sample is
\* dropped, the other samples of the record are stored, and the client is
\* served on.
C14_UnknownSeriesDropsOnlySample ==
    \A i \in DOMAIN handled :
        LET h == handled[i]
        IN  ("epoch" \in DictKeys(h.fields)) =>
                /\ \A name \in (DictKeys(h.fields) \ {"epoch"}) \cap DOMAIN db.rows :
                       Stored(name, DictGet(h.fields, "epoch"), DictGet(h.fields, name))
                /\ running

-----------------------------------------------------------------------------
(* Claims on the legacy server *)

\* C9: whenever a GUI client has been written a data PDU, each sample of that
\* PDU is already in the store: a top-n query on each of the PDU's sensors
\* returns its value.
C9_StoredBeforeRouted ==
    \A f \in Factories : \A i \in DOMAIN written[f] :
        LET w == written[f][i]
        IN  w.type \in DataPdus =>
                \A j \in DOMAIN handler_sensors[w.type] :
                    \A result \in select_sensor_data_top_n_entries(
                                      db, handler_sensors[w.type][j], MaxEvents) :
                        \E k \in DOMAIN result : result[k] = <<w.time_ms, w.vals[j]>>

C9_Witness ==
    /\ Len(gui_clients) = 2
    /\ \A f \in Factories : \E i \in DOMAIN written[f] : written[f][i].type = ACPDU
    /\ ~routing

-----------------------------------------------------------------------------
(* Claims on the staging store *)

\* result holds rows of the series, each row at most once
RowsOf(result, rows) ==
    \E f \in [DOMAIN result -> DOMAIN rows] :
        /\ \A i, j \in DOMAIN result : i # j => f[i] # f[j]
        /\ \A i \in DOMAIN result : rows[f[i]] = result[i]

\* how many rows of the series are newer than time
NewerCount(rows, time) == Cardinality({k \in DOMAIN rows : rows[k][1] > time})

\* C10: after any appends, committed or not, top_n(sensor, n) returns
\* min(n, series length) samples, newest first, none older than a sample
\* left out; n = 0 gives the empty list, n above the length the whole series.
C10_TopNNewestFirst ==
    (query.op = "top_n") =>
        LET rows == db.rows[query.sensor]
            k == IF query.n < Len(rows) THEN query.n ELSE Len(rows)
        IN  /\ query.result # {}
            /\ \A result \in query.result :
                  /\ Len(result) = k
                  /\ RowsOf(result, rows)
                  /\ \A i, j \in DOMAIN result : i < j => result[i][1] >= result[j][1]
                  /\ \A i \in DOMAIN result : NewerCount(rows, result[i][1]) < k
                  /\ (query.n = 0) => result = <<>>

C10_Witness ==
    /\ query.op = "top_n"
    /\ query.n = 2
    /\ Len(db.rows[query.sensor]) = 3
    /\ db.committed[query.sensor] = <<>>
    /\ db.rows[query.sensor][1][1] < db.rows[query.sensor][3][1]

\* the numbers of the rows whose time lies in the range, bounds included
InRange(rows, times) ==
    {k \in DOMAIN rows : times[1] <= rows[k][1] /\ rows[k][1] <= times[2]}

\* the i-th smallest number of the set idx
Nth(idx, i) == CHOOSE k \in idx : Cardinality({j \in idx : j < k}) = i - 1

\* C11: between_times(sensor, [t_lo, t_hi]) returns exactly the samples with
\* t_lo <= time <= t_hi, in the order they were inserted, and the empty list
\* when t_lo > t_hi.
C11_BetweenTimesInclusive ==
    (query.op = "between_times") =>
        LET rows == db.rows[query.sensor]
            idx == InRange(rows, query.times)
        IN  /\ Cardinality(query.result) = 1
            /\ \A result \in query.result :
                  /\ Len(result) = Cardinality(idx)
                  /\ \A i \in DOMAIN result : result[i] = rows[Nth(idx, i)]
                  /\ (query.times[1] > query.times[2]) => result = <<>>

C11_Witness ==
    /\ query.op = "between_times"
    /\ query.times = <<1, 2>>
    /\ Len(db.rows[query.sensor]) = 3
    /\ db.rows[query.sensor][1][1] = 2
    /\ db.rows[query.sensor][2][1] = 1
    /\ \A result \in query.result : Len(result) = 3

\* C12: after a commit, dropping the connection and opening the same database
\* again, a query on any series returns every sample appended before the commit.
C12_CommitSurvivesReopen ==
    (query.op = "reopen") =>
        \A sensor \in DOMAIN durable :
            /\ sensor \in DOMAIN db.rows
            /\ LET result == select_sensor_data_between_times(db, sensor, <<0, 2>>)
               IN  \A k \in DOMAIN durable[sensor] :
                       \E j \in DOMAIN result : result[j] = durable[sensor][k]

C12_Witness ==
    /\ query.op = "reopen"
    /\ \A sensor \in StoreSensors :
           sensor \in DOMAIN durable /\ Len(durable[sensor]) > 0
    /\ \E sensor \in StoreSensors : Len(db.rows[sensor]) = 2

\* C13: create_sensor_table on a series that exists raises nothing and leaves
\* that series' samples and every other series as they were.
C13_CreateIdempotent ==
    [][(query'.op = "create" /\ query'.sensor \in DOMAIN db.rows) =>
           (query'.error = "none" /\ db' = db)]_vars

C13_Witness ==
    /\ query.op = "create"
    /\ Len(db.rows[query.sensor]) = 2
    /\ db.txn
    /\ \E other \in DOMAIN db.rows : other # query.sensor /\ Len(db.rows[other]) = 1

-----------------------------------------------------------------------------
(* Claims on the query server *)

\* the lexemes of a request line after the first sep
After(str, sep) == SubSeq(str, Find(str, sep) + 1, Len(str))

\* the lexemes of a request line before the first sep
Before(str, sep) == SubSeq(str, 1, Find(str, sep) - 1)

HasLexeme(str, lexeme) == \E i \in DOMAIN str : str[i] = lexeme

\* VERB SP path ? filters
WellFormed(str) == HasLexeme(str, " ") /\ HasLexeme(After(str, " "), "?")

Verb(str) == Before(str, " ")
Path(str) == Before(After(str, " "), "?")
FilterText(str) == After(str, "?")

\* the value the request line gives to a filter key
FilterValue(str, key) ==
    LET text == FilterText(str)
    IN  SqlNumbers[text[(CHOOSE i \in DOMAIN text : text[i] = key) + 2]]

\* GET /sensors with no, one or both filters, each with a number as value
SensorsRequest(str) ==
    /\ WellFormed(str)
    /\ Verb(str) = <<"GET">>
    /\ Path(str) = <<"/", "sensors">>
    /\ ~HasLexeme(str, "x")

\* the store primitive the filter keys of the request line select
ExpectedOp(str) ==
    LET amount == HasLexeme(FilterText(str), "amount")
        since == HasLexeme(FilterText(str), "timesince")
    IN  IF amount /\ ~since THEN "top_n"
        ELSE IF ~amount /\ since THEN "between_times"
        ELSE IF amount /\ since THEN "top_n_and_between_times"
        ELSE "none"

\* the request received last and what became of it
Received == n_requests > 0

\* C15: for GET /sensors the store primitive used for each sensor follows from
\* the filter keys of the request: amount alone top-n, timesince alone the
\* range from timesince to now, both top-n in that range, neither no query and
\* an empty list.
C15_PrimitiveByFilterKeys ==
    (Received /\ SensorsRequest(ws.request)) =>
        /\ ws.served.error = "none"
        /\ \A i \in DOMAIN ws.served.ops :
              LET call == ws.served.ops[i]
              IN  /\ call.op = ExpectedOp(ws.request)
                  /\ (call.op \in {"top_n", "top_n_and_between_times"}) =>
                         call.n = FilterValue(ws.request, "amount")
                  /\ (call.op \in {"between_times", "top_n_and_between_times"}) =>
                         call.times = <<FilterValue(ws.request, "timesince"), clock>>

\* C16: whichever of amount, timesince or both the filters hold, the list
\* _restful_serve_sensor_get_data returns for a sensor is in ascending time
\* order.
C16_OldestFirst ==
    (get_data.filters # <<>>) =>
        /\ get_data.out.error = "none"
        /\ \A i, j \in DOMAIN get_data.out.data :
              i < j => get_data.out.data[i].time <= get_data.out.data[j].time

\* the times of all samples of a response group -> sensor -> list
SampleTimes(response) ==
    UNION {UNION {{response[g][2][k][2][i].time : i \in DOMAIN response[g][2][k][2]} :
                     k \in DOMAIN response[g][2]} : g \in DOMAIN response}

\* C17: the reply to GET /sensors carries as epoch the greatest time of the
\* samples of its result, 0 when there is none.
C17_EpochIsNewestTime ==
    (Received /\ SensorsRequest(ws.request) /\ ws.served.error = "none") =>
        /\ ws.reply.status = 200
        /\ ws.reply.epoch = Max({0} \union SampleTimes(ws.served.response))

\* the exceptions the three handled ones do not cover
InternalFailures == {"OperationalError", "ValueError", "IndexError", "AttributeError"}

\* C18: every request received is answered by one reply with a status, 200
\* for a GET /sensors that succeeds and 500 for a failure inside the server,
\* and no request ends the handler without a reply.
C18_EveryRequestAnswered ==
    Received =>
        /\ ws.reply # NoReply
        /\ ws.state # "failed"
        /\ (ws.served.error = "none") => ws.reply.status = 200
        /\ (ws.served.error \in InternalFailures /\ WellFormed(ws.request)) =>
               ws.reply.status = 500

\* a line that has no verb and path
Unparseable(str) == ~HasLexeme(str, " ")

KnownPath(path) ==
    \/ path = <<"/", "sensors">>
    \/ Len(path) = 4 /\ SubSeq(path, 1, 3) = <<"/", "sensors", "/">>
    \/ path = <<"/", "meta", "/", "sensors">>

\* C20: a well-formed GET on a path that is no route gets status 404, a
\* well-formed request with another verb than GET gets 501.
C20_UnknownRoute404 ==
    (Received /\ WellFormed(ws.request)) =>
        /\ (Verb(ws.request) = <<"GET">> /\ ~KnownPath(Path(ws.request))) =>
               ws.reply.status = 404
        /\ (Verb(ws.request) # <<"GET">>) => ws.reply.status = 501

\* C21: with keep-alive disabled a connection serves exactly one request,
\* replies to it and is then closed; with keep-alive enabled every request of
\* the connection is replied to.
C21_OneRequestWithoutKeepAlive ==
    /\ (~keep_alive /\ ws.state = "closed") =>
          (n_requests = 1 /\ ws.reply # NoReply)
    /\ (keep_alive /\ Received) => ws.reply # NoReply

\* the groups of the enabled sensors of the configuration
EnabledGroups ==
    {sensors_config[i][2].group : i \in {k \in DOMAIN sensors_config : sensors_config[k][2].enable}}

\* GET /sensors/<group> with an amount
GroupRequest(str) ==
    /\ WellFormed(str)
    /\ Verb(str) = <<"GET">>
    /\ Len(Path(str)) = 4
    /\ SubSeq(Path(str), 1, 3) = <<"/", "sensors", "/">>

\* C22: GET /sensors/g gets status 200 with data of the enabled sensors of
\* group g only when some enabled sensor has group g, and 404 when no sensor
\* is configured with g.
C22_GroupRoute ==
    (Received /\ GroupRequest(ws.request)) =>
        LET g == Path(ws.request)[4]
        IN  IF g \in EnabledGroups
            THEN /\ ws.reply.status = 200
                 /\ DictKeys(ws.served.response) = {g}
            ELSE ws.reply.status = 404

-----------------------------------------------------------------------------
(* Push to the back ends: the Namespace of each back end, the producers and *)
(* the emit jobs of the scheduler                                          *)

\* the sensors the producers deliver values of
BrokerSensors == {"rpm", "lambda"}

\* Namespace._add_sensor_values_to_datastore: if sensor not in self.datastore
add_key(datastore, sensor) ==
    IF sensor \in DictKeys(datastore) THEN datastore
    ELSE DictSet(datastore, sensor, <<>>)

\* Namespace._add_sensor_values_to_datastore: self.datastore[sensor].append
add_append(datastore, sensor, values) ==
    IF sensor \in DictKeys(datastore)
    THEN [error |-> "none",
          datastore |-> DictSet(datastore, sensor, Append(DictGet(datastore, sensor), values))]
    ELSE [error |-> "KeyError", datastore |-> datastore]

\* the samples of a datastore or batch
SamplesOf(datastore) ==
    UNION {{datastore[i][2][k] : k \in DOMAIN datastore[i][2]} : i \in DOMAIN datastore}

\* the samples of all batches sent to a back end
Delivered(server) ==
    UNION {SamplesOf(emitted[server][i]) : i \in DOMAIN emitted[server]}

\* Namespace._emit_datastore after a failed emit: self.datastore = {} is left out
cleared_if_sent(namespace, datastore) ==
    IF namespace.job = "removed" THEN datastore ELSE <<>>

\* Namespace._emit_datastore: self.datastore = {}
cleared(namespace, datastore) == <<>>

\* a producer hands one value of a sensor to the namespace of a back end: the
\* test for the key and the creation of the list
AddSensorValues(server, sensor) ==
    /\ namespaces[server].registered
    /\ namespaces[server].adding = <<>>
    /\ n_produced < MaxProduced
    /\ n_produced' = n_produced + 1
    /\ namespaces' = [namespaces EXCEPT
           ![server].datastore = add_key(@, sensor),
           ![server].adding = <<sensor, n_produced + 1>>]
    /\ audit' = [audit EXCEPT ![server].enqueued = @ \union {n_produced + 1}]
    /\ UNCHANGED <<clients, reachable, emitted, sio>>

\* ... and the append to the list
AddAppend(server) ==
    /\ namespaces[server].adding # <<>>
    /\ LET sensor == namespaces[server].adding[1]
           values == namespaces[server].adding[2]
           r == add_append(namespaces[server].datastore, sensor, values)
       IN  /\ namespaces' = [namespaces EXCEPT
                  ![server].datastore = r.datastore,
                  ![server].adding = <<>>]
           /\ audit' = IF r.error = "none" THEN audit
                       ELSE [audit EXCEPT ![server].key_errors = @ \union {values}]
    /\ UNCHANGED <<clients, reachable, emitted, n_produced, sio>>

\* the emit job runs Namespace._emit_datastore up to the emit
EmitDatastore(server) ==
    /\ namespaces[server].job = "scheduled"
    /\ ~namespaces[server].flushing
    /\ namespaces[server].datastore # <<>>
    /\ IF clients[server]
       THEN /\ emitted' = [emitted EXCEPT ![server] = Append(@, namespaces[server].datastore)]
            /\ namespaces' = [namespaces EXCEPT ![server].flushing = TRUE]
            /\ UNCHANGED audit
       ELSE /\ namespaces' = [namespaces EXCEPT ![server].flushing = TRUE,
                                                ![server].job = "removed"]
            /\ audit' = [audit EXCEPT
                   ![server].dropped = @ \union SamplesOf(namespaces[server].datastore),
                   ![server].removed_at = n_produced]
            /\ UNCHANGED emitted
    /\ UNCHANGED <<clients, reachable, n_produced, sio>>

\* ... and its last statement
ClearDatastore(server) ==
    /\ namespaces[server].flushing
    /\ namespaces' = [namespaces EXCEPT
           ![server].datastore = cleared(namespaces[server], @),
           ![server].flushing = FALSE]
    /\ UNCHANGED <<clients, reachable, emitted, n_produced, audit, sio>>

\* Namespace.on_connect after client.connect
OnConnect(server) ==
    /\ ~clients[server]
    /\ namespaces[server].job = "none"
    /\ clients' = [clients EXCEPT ![server] = TRUE]
    /\ namespaces' = [namespaces EXCEPT ![server].job = "scheduled",
                                        ![server].registered = TRUE]
    /\ UNCHANGED <<reachable, emitted, n_produced, audit, sio>>

\* the channel to a back end closes: Namespace.on_disconnect
OnDisconnect(server) ==
    /\ clients[server]
    /\ clients' = [clients EXCEPT ![server] = FALSE]
    /\ audit' = [audit EXCEPT ![server].disconnected_at = n_produced]
    /\ UNCHANGED <<reachable, namespaces, emitted, n_produced, sio>>

BrokerInit ==
    /\ CodecInit /\ StoreIdle /\ ServeIdle /\ LegacyIdle /\ RestIdle /\ BrokerIdle /\ AppIdle
    /\ clock = 0

BrokerNext ==
    /\ \/ \E server \in Servers, sensor \in BrokerSensors : AddSensorValues(server, sensor)
       \/ \E server \in Servers : AddAppend(server)
       \/ \E server \in Servers : EmitDatastore(server)
       \/ \E server \in Servers : ClearDatastore(server)
       \/ \E server \in Servers : OnConnect(server)
       \/ \E server \in Servers : OnDisconnect(server)
    /\ UNCHANGED <<codecVars, appVars, storeVars, serveVars, legacyVars, restVars, clock>>

SpecBroker == BrokerInit /\ [][BrokerNext]_vars

-----------------------------------------------------------------------------
(* Claims on the push to the back ends *)

\* is a sequence of sample numbers in the order the samples were enqueued
InEnqueueOrder(list) == \A i, j \in DOMAIN list : i < j => list[i] < list[j]

\* no emit job is inside _emit_datastore and no producer inside
\* _add_sensor_values_to_datastore
Quiescent(server) ==
    ~namespaces[server].flushing /\ namespaces[server].adding = <<>>

\* C23: a flush emits a "data" batch only when the buffer holds samples, the
\* batch holds per sensor the samples enqueued since the flush before in the
\* order they were enqueued, and the flush leaves the buffer empty: between
\* flushes every sample enqueued so far is in a batch, still in the buffer, or
\* was dropped by a failed emit.
C23_FlushEmitsWhatWasEnqueued ==
    \A server \in Servers :
        /\ \A i \in DOMAIN emitted[server] :
              /\ SamplesOf(emitted[server][i]) # {}
              /\ \A k \in DOMAIN emitted[server][i] :
                    InEnqueueOrder(emitted[server][i][k][2])
        /\ Quiescent(server) =>
              audit[server].enqueued =
                  Delivered(server) \union SamplesOf(namespaces[server].datastore)
                                    \union audit[server].dropped

C26_NoAccumulationAfterRemoval ==
    \A server \in Servers :
        /\ namespaces[server].job = "removed" =>
              \A x \in SamplesOf(namespaces[server].datastore) :
                  x <= audit[server].removed_at
        /\ (~clients[server] /\ namespaces[server].job = "scheduled") =>
              \A x \in SamplesOf(namespaces[server].datastore) :
                  x <= audit[server].disconnected_at

-----------------------------------------------------------------------------
(* The legacy server's GUI clients and one back end of the push side by    *)
(* side: who still gets data after it is gone                              *)

RemovedNext ==
    /\ \/ /\ \/ \E factory \in Factories : OnAipdu(factory, GUI)
             \/ \E factory \in Factories : OnLost(factory)
             \/ OnDataPdu(ACPDU, clock)
             \/ RouteWrite
          /\ UNCHANGED brokerVars
       \/ /\ \/ AddSensorValues("cloud", "rpm")
             \/ AddAppend("cloud")
             \/ EmitDatastore("cloud")
             \/ ClearDatastore("cloud")
             \/ OnConnect("cloud")
             \/ OnDisconnect("cloud")
          /\ UNCHANGED <<legacyVars, db, clock>>
    /\ UNCHANGED <<codecVars, appVars, serveVars, restVars, query, durable>>

SpecRemoved == LegacyInit /\ [][RemovedNext]_vars

\* C25: once the connection of a GUI client is lost no PDU received later is
\* written to its factory, and once the emit job of a back end is removed no
\* further "data" batch is emitted to it.
C25_NothingSentAfterRemoval ==
    [][/\ \A factory \in Factories :
              (lost[factory] >= 0 /\ lost'[factory] >= 0) =>
                  written'[factory] = written[factory]
       /\ \A server \in Servers :
              namespaces[server].job = "removed" => emitted'[server] = emitted[server]]_vars

C25_Witness ==
    /\ \E factory \in Factories :
          /\ lost[factory] >= 0
          /\ lost[factory] < n_events
          /\ Len(written[factory]) = 1
          /\ \E other \in Factories \ {factory} :
                /\ Len(written[other]) = 2
                /\ written[other][2].type = ACPDU
    /\ namespaces["cloud"].job = "removed"
    /\ emitted["cloud"] # <<>>
    /\ audit["cloud"].dropped # {}
    /\ Quiescent("cloud")

-----------------------------------------------------------------------------
(* Connecting the back ends: SocketIO.start, _connect_client, _health_check *)

\* config.socket_io[server]["retries"]
socket_io_retries == 1

\* the loop of _connect_client for a back end is over: the next back end, or
\* the end of the loop of start
LoopDone(s) ==
    IF s.server < Len(server_order)
    THEN [s EXCEPT !.server = @ + 1, !.retry = 0]
    ELSE [s EXCEPT !.pc = "finish"]

\* the namespace _connect_client registers before its loop
Registered(server) ==
    IF sio.retry = 0 THEN NewNamespace(server) ELSE namespaces[server]

\* SocketIO.start is called for the first time
Start ==
    /\ sio.pc = "idle"
    /\ sio' = [sio EXCEPT !.pc = "connect", !.server = 1, !.retry = 0, !.depth = 1]
    /\ UNCHANGED <<clients, reachable, namespaces, emitted, n_produced, audit>>

\* one pass of the loop of _connect_client: login, connect, sleep
ConnectClient ==
    /\ sio.pc = "connect"
    /\ LET server == server_order[sio.server]
           tried == [sio EXCEPT !.attempts[server] = @ + 1]
       IN  CASE reachable[server] = "denies" ->
                  /\ sio' = [tried EXCEPT !.pc = "failed", !.error = "Exception"]
                  /\ namespaces' = [namespaces EXCEPT ![server] = Registered(server)]
                  /\ UNCHANGED clients
             [] reachable[server] = "down" ->
                  /\ sio' = IF sio.retry < socket_io_retries
                            THEN [tried EXCEPT !.retry = @ + 1]
                            ELSE LoopDone(tried)
                  /\ namespaces' = [namespaces EXCEPT ![server] = Registered(server)]
                  /\ UNCHANGED clients
             [] reachable[server] = "up" ->
                  /\ sio' = LoopDone(tried)
                  /\ clients' = [clients EXCEPT ![server] = TRUE]
                  /\ namespaces' = [namespaces EXCEPT ![server] =
                         [Registered(server) EXCEPT !.job = "scheduled", !.registered = TRUE]]
    /\ UNCHANGED <<reachable, emitted, n_produced, audit>>

\* the end of start calls start again
start_again(s) ==
    IF s.depth < MaxDepth
    THEN [s EXCEPT !.pc = "connect", !.server = 1, !.retry = 0, !.depth = @ + 1]
    ELSE [s EXCEPT !.pc = "failed", !.error = "RecursionError"]

\* the end of SocketIO.start: no client connected -> self.start(), then the
\* health check job is added by every call of start that returns
FinishStart ==
    /\ sio.pc = "finish"
    /\ sio' = IF \E server \in Servers : clients[server]
              THEN [sio EXCEPT !.pc = "started", !.health_jobs = @ + sio.depth, !.depth = 0]
              ELSE start_again(sio)
    /\ UNCHANGED <<clients, reachable, namespaces, emitted, n_produced, audit>>

\* SocketIO._health_check finds no client connected
HealthCheck ==
    /\ sio.pc = "started"
    /\ sio.health_jobs > 0
    /\ sio.restarts < MaxRestarts
    /\ \A server \in Servers : ~clients[server]
    /\ sio' = [sio EXCEPT !.pc = "connect", !.server = 1, !.retry = 0, !.depth = 1,
                          !.health_jobs = @ - 1, !.restarts = @ + 1,
                          !.attempts = [server \in Servers |-> 0]]
    /\ UNCHANGED <<clients, reachable, namespaces, emitted, n_produced, audit>>

ConnectInit ==
    /\ CodecInit /\ StoreIdle /\ ServeIdle /\ LegacyIdle /\ RestIdle /\ AppIdle
    /\ clock = 0
    /\ clients = [server \in Servers |-> FALSE]
    /\ reachable \in [Servers -> {"up", "down", "denies"}]
    /\ namespaces = [server \in Servers |-> NewNamespace(server)]
    /\ emitted = [server \in Servers |-> <<>>]
    /\ n_produced = 0
    /\ audit = [server \in Servers |-> NoAudit]
    /\ sio = SioIdle

ConnectNext ==
    /\ \/ Start
       \/ ConnectClient
       \/ FinishStart
       \/ HealthCheck
       \/ \E server \in Servers : OnDisconnect(server)
    /\ UNCHANGED <<codecVars, appVars, storeVars, serveVars, legacyVars, restVars, clock>>

SpecConnect == ConnectInit /\ [][ConnectNext]_vars

\* the steps of the program itself
ConnectProgram ==
    /\ Start \/ ConnectClient \/ FinishStart \/ HealthCheck
    /\ UNCHANGED <<codecVars, appVars, storeVars, serveVars, legacyVars, restVars, clock>>

\* the scheduler runs its jobs and start runs on: every step of the program
\* that can be taken is taken; a channel need not close
SpecConnectFair == SpecConnect /\ WF_vars(ConnectProgram)

\* C27: a back end that stays unreachable is tried at most retries + 1 times
\* by a call of start, which then gives up instead of trying on.
C27_ConnectAttemptsCapped ==
    \A server \in Servers :
        reachable[server] = "down" => sio.attempts[server] <= socket_io_retries + 1

\* the channel of a back end that was connected is closed while start is over
\* and another back end is connected
ClosedNextToHealthy(server) ==
    /\ sio.pc = "started"
    /\ ~clients[server]
    /\ namespaces[server].job # "none"
    /\ \E other \in Servers \ {server} : clients[other]

\* _connect_client is running for the back end
Reconnecting(server) ==
    sio.pc = "connect" /\ server_order[sio.server] = server

\* C28: when the channel of one back end closes while another back end stays
\* connected, a reconnect of the closed one is started in the end, and the
\* emit job of the connected one stays scheduled.
C28_ClosedBackEndReconnects ==
    \A server \in Servers :
        /\ ClosedNextToHealthy(server) ~> Reconnecting(server)
        /\ [](\A other \in Servers :
                 (sio.pc = "started" /\ clients[other]) => namespaces[other].job = "scheduled")

-----------------------------------------------------------------------------
(* CarEmulator: a generator thread puts samples into a queue.Queue and a
   task on the server's event loop takes them out and inserts them *)

\* ticks of the generator
MaxTicks == 3

\* config["sensors"]: the emulated sensors, in configuration order
emulation_sensors == <<"rpm", "lambda">>

\* eval(emulator): the sensor's formula, here of the tick counter x
emulate(name, x) == IF name = "rpm" THEN 1000 + x ELSE x

\* the store the server hands over: a table for every emulated sensor
EmuDatabase == create_sensor_tables(NewDatabase, emulation_sensors)

\* mutant: the item goes to the front of the queue
queue_put_front(q, item) == <<item>> \o q

\* queue.Queue.put: first in, first out
queue_put(q, item) == Append(q, item)

\* _serve: the sleep is over, epoch = time.time()
ServeTick(now) ==
    /\ emu.i = 0
    /\ emu.x < MaxTicks
    /\ emu' = [emu EXCEPT !.epoch = now, !.i = 1]
    /\ clock' = now
    /\ UNCHANGED db

\* _serve: one turn of the loop over the sensors, then x += 1
ServePut ==
    /\ emu.i >= 1
    /\ LET name == emulation_sensors[emu.i]
           value == emulate(name, emu.x)
           last == emu.i = Len(emulation_sensors)
       IN  emu' = [emu EXCEPT
                       !.queue = queue_put(@, <<name, emu.epoch, value>>),
                       !.generated = Append(@, [name |-> name, epoch |-> emu.epoch,
                                                value |-> value, x |-> emu.x]),
                       !.i = IF last THEN 0 ELSE @ + 1,
                       !.x = IF last THEN @ + 1 ELSE @]
    /\ UNCHANGED <<db, clock>>

\* _serve_emulator: the queue is not empty, get_nowait and insert_sensor_data
ServeEmulator ==
    /\ emu.task = "running"
    /\ emu.queue # <<>>
    /\ LET item == Head(emu.queue)
           r == insert_sensor_data(db, item[1], item[2], <<item[3]>>)
       IN  /\ db' = r.db
           /\ emu' = [emu EXCEPT
                          !.queue = Tail(@),
                          !.inserted = IF r.error = "none" THEN Append(@, item) ELSE @,
                          !.task = IF r.error = "none" THEN @ ELSE "failed"]
    /\ UNCHANGED clock

EmuInit ==
    /\ CodecInit /\ ServeIdle /\ LegacyIdle /\ RestIdle /\ BrokerIdle /\ AppIdle
    /\ db = EmuDatabase
    /\ query = NoQuery
    /\ durable = EmuDatabase.rows
    /\ clock = 1

EmuNext ==
    /\ \/ \E now \in {clock, clock + 1} : ServeTick(now)
       \/ ServePut
       \/ ServeEmulator
    /\ UNCHANGED <<codecVars, serveVars, legacyVars, restVars, brokerVars,
                   event_loop, tcp, session, wire, plugin, xbee, scheduler, query, durable>>

SpecEmulator == EmuInit /\ [][EmuNext]_vars

\* the event loop runs the task whenever it can take a step
EmulatorTask ==
    /\ ServeEmulator
    /\ UNCHANGED <<codecVars, serveVars, legacyVars, restVars, brokerVars,
                   event_loop, tcp, session, wire, plugin, xbee, scheduler, query, durable>>

SpecEmulatorFair == SpecEmulator /\ WF_vars(EmulatorTask)

\* the queue items of a sequence of generated samples
ItemsOf(samples) == [k \in DOMAIN samples |->
                         <<samples[k].name, samples[k].epoch, samples[k].value>>]

\* the rows a sensor's table holds after the items were inserted in order
InsertedRows(items, name) ==
    LET own == SelectSeq(items, LAMBDA item : item[1] = name)
    IN  [k \in DOMAIN own |-> <<own[k][2], own[k][3]>>]

\* the first sample of the tick the k-th sample belongs to
TickStart(k) == k - ((k - 1) % Len(emulation_sensors))

\* tick by tick: one sample per sensor in configuration order, one epoch and
\* one x per tick, x counting the ticks from 0
TickByTick ==
    \A k \in DOMAIN emu.generated :
        /\ emu.generated[k].name = emulation_sensors[((k - 1) % Len(emulation_sensors)) + 1]
        /\ emu.generated[k].x = (k - 1) \div Len(emulation_sensors)
        /\ emu.generated[k].epoch = emu.generated[TickStart(k)].epoch
        /\ emu.generated[k].value = emulate(emu.generated[k].name, emu.generated[k].x)

\* what was inserted and what still waits is what was generated, in that order
ExactlyOnceInOrder ==
    /\ emu.inserted \o emu.queue = ItemsOf(emu.generated)
    /\ \A k \in DOMAIN emulation_sensors :
           db.rows[emulation_sensors[k]] = InsertedRows(emu.inserted, emulation_sensors[k])

\* the store changes only in a step of the event-loop task
OnlyTheTaskInserts ==
    db' # db => /\ emu'.inserted # emu.inserted
                /\ emu'.generated = emu.generated
                /\ emu'.x = emu.x /\ emu'.i = emu.i

-----------------------------------------------------------------------------
(* Server.serve_forever: samples are saved while the event loop runs, the
   commit task commits on its interval, then the loop is stopped and the
   process exits *)

\* _initialise_database: a table for every configured sensor
ServerDatabase == create_sensor_tables(NewDatabase, config_sensors)

\* _save_sensor_data_to_database with one sample, whatever its producer
SaveSensorData(name, now) ==
    /\ event_loop.state = "serving"
    /\ RowCount(db.rows, DOMAIN db.rows) < MaxRows
    /\ db' = save_sensor_data_to_database(db, <<<<name, now, 1>>>>).db
    /\ clock' = now
    /\ UNCHANGED event_loop

\* _commit_database: the sleep is over
CommitDatabase ==
    /\ event_loop.state = "serving"
    /\ db' = commit(db)
    /\ UNCHANGED <<event_loop, clock>>

\* run_forever returns, the finally clause prints "End"
StopLoop ==
    /\ event_loop.state = "serving"
    /\ event_loop' = [state |-> "ended", appended |-> db.rows]
    /\ UNCHANGED <<db, clock>>

\* __exit__ logs an exception if there is one; the process exits and the
\* next run opens the file again
Exit ==
    /\ event_loop.state = "ended"
    /\ event_loop' = [event_loop EXCEPT !.state = "exited"]
    /\ db' = reopen(db)
    /\ UNCHANGED clock

ShutdownInit ==
    /\ CodecInit /\ ServeIdle /\ LegacyIdle /\ RestIdle /\ BrokerIdle /\ AppIdle
    /\ db = ServerDatabase
    /\ query = NoQuery
    /\ durable = ServerDatabase.rows
    /\ clock = 1

ShutdownNext ==
    /\ \/ \E name \in RestSensors, now \in {clock, clock + 1} : SaveSensorData(name, now)
       \/ CommitDatabase
       \/ StopLoop
       \/ Exit
    /\ UNCHANGED <<codecVars, serveVars, legacyVars, restVars, brokerVars,
                   emu, tcp, session, wire, plugin, xbee, scheduler, query, durable>>

SpecShutdown == ShutdownInit /\ [][ShutdownNext]_vars

\* C30: after a clean shutdown of serve_forever every sample appended before
\* the shutdown is present when the store is reopened
C30_ShutdownCommits ==
    event_loop.state = "exited" => db.rows = event_loop.appended

-----------------------------------------------------------------------------
(* ProtocolFactory.serve with client = socket: every accepted connection gets
   a ProtocolFactorySocket of its own around the one ProtocolClient *)

Peers == {"p1", "p2"}

\* a well-formed delivery and one with a wrong start byte
PeerItems == {it \in ServeItems : it.chunks \in {<<AeroA>>, <<BadStart>>}}

\* create_server's protocol factory, then connection_made: a task running the
\* application handler on the shared client
PeerConnectionMade(p) ==
    /\ p \notin tcp.accepted
    /\ tcp' = [tcp EXCEPT !.connected[p] = TRUE, !.accepted = @ \cup {p},
                          !.tasks = @ + 1]
    /\ UNCHANGED <<db, clock>>

\* data_received -> client.put
PeerDataReceived(p, item) ==
    /\ tcp.connected[p]
    /\ Len(tcp.put) < MaxPut
    /\ tcp' = [tcp EXCEPT !.queue = Append(@, item),
                          !.put = Append(@, [peer |-> p, item |-> item])]
    /\ UNCHANGED <<db, clock>>

\* connection_lost -> client.put(Exception())
PeerConnectionLost(p) ==
    /\ tcp.connected[p]
    /\ Len(tcp.put) < MaxPut
    /\ tcp' = [tcp EXCEPT !.connected[p] = FALSE,
                          !.queue = Append(@, LostItem),
                          !.put = Append(@, [peer |-> p, item |-> LostItem])]
    /\ UNCHANGED <<db, clock>>

\* one of the _protocol_serve tasks gets the next item of the queue
PeerProtocolServe(now) ==
    /\ tcp.tasks > 0
    /\ tcp.queue # <<>>
    /\ \E r \in {protocol_serve(Head(tcp.queue), db, now)} :
       \E k \in {Len(tcp.put) - Len(tcp.queue) + 1} :
           /\ db' = r.db
           /\ tcp' = [tcp EXCEPT
                          !.queue = Tail(@),
                          !.tasks = IF r.running THEN @ ELSE @ - 1,
                          !.decoded = IF r.error = "none" THEN @ \cup {k} ELSE @,
                          !.errors = IF r.error = "none" THEN @ ELSE @ \cup {k}]
    /\ clock' = now

PeersInit ==
    /\ CodecInit /\ ServeIdle /\ LegacyIdle /\ RestIdle /\ BrokerIdle /\ AppIdle
    /\ db = ServerDatabase
    /\ query = NoQuery
    /\ durable = ServerDatabase.rows
    /\ clock = 1

PeersNext ==
    /\ \/ \E p \in Peers : PeerConnectionMade(p)
       \/ \E p \in Peers, item \in PeerItems : PeerDataReceived(p, item)
       \/ \E p \in Peers : PeerConnectionLost(p)
       \/ \E now \in {clock, clock + 1} : PeerProtocolServe(now)
    /\ UNCHANGED <<codecVars, serveVars, legacyVars, restVars, brokerVars,
                   emu, event_loop, session, wire, plugin, xbee, scheduler, query, durable>>

SpecPeers == PeersInit /\ [][PeersNext]_vars

\* the k-th item put on the queue is a delivery of peer p, both peers have
\* connected and p has sent well-formed deliveries only
DeliveryOf(p, k) ==
    /\ k \in DOMAIN tcp.put
    /\ tcp.put[k].peer = p
    /\ tcp.accepted = Peers
    /\ \A j \in DOMAIN tcp.put :
           tcp.put[j].peer = p => tcp.put[j].item.chunks = <<AeroA>>

\* the k-th item still waits in the queue
Waiting(k) == k > Len(tcp.put) - Len(tcp.queue)

\* C31: with two TCP peers connected, every delivery of a peer that is still
\* connected is eventually decoded, whatever codec errors occur on, or
\* disconnects happen to, the other peer: while such a delivery waits in the
\* queue there is a serving task to take it
C31_PeersServedIndependently ==
    \A p \in Peers : \A k \in 1..MaxPut :
        (DeliveryOf(p, k) /\ Waiting(k) /\ tcp.connected[p]) => tcp.tasks > 0

-----------------------------------------------------------------------------
(* Protocol.start (src/src/protocol): a socket server whose connections are
   Socket objects, or one XBee object; both call connection_made,
   data_received and connection_lost of the one Protocol *)

\* handler calls recorded
MaxCalls == 4

Sessions == {"s1", "s2"}

\* event_handlers[event](...) was invoked for the session
Call(event, s, reason) == [event |-> event, session |-> s, reason |-> reason]

\* Protocol.connection_made
connection_made(cs, s) == Append(cs, Call("connect", s, "none"))

\* Protocol.data_received: _parse_data hands the PDUs to their handler
session_data_received(cs, s) == Append(cs, Call("PDU", s, "none"))

\* Protocol.connection_lost
connection_lost(cs, s, exc) == Append(cs, Call("disconnect", s, exc))

\* asyncio accepts a connection: Socket(self), then Socket.connection_made
SocketMade(s) ==
    /\ session.variant = "socket"
    /\ session.state[s] = "none"
    /\ session' = [session EXCEPT !.state[s] = "open",
                                  !.calls = connection_made(@, s)]

\* Socket.data_received
SocketData(s) ==
    /\ session.variant = "socket"
    /\ session.state[s] = "open"
    /\ Len(session.calls) < MaxCalls
    /\ session' = [session EXCEPT !.calls = session_data_received(@, s)]

\* Socket.connection_lost: exc is None on a clean close
SocketLost(s, exc) ==
    /\ session.variant = "socket"
    /\ session.state[s] = "open"
    /\ session' = [session EXCEPT !.state[s] = "closed",
                                  !.calls = connection_lost(@, s, exc)]

\* XBee.__init__: xbee.open() and add_data_received_callback, then
\* connection_made; on SerialException connection_lost(err), which calls
\* self.protocol.put(exc): Protocol has no put, AttributeError leaves start()
XBeeInit(opens) ==
    /\ session.variant = "xbee"
    /\ session.state["s1"] = "none"
    /\ session' = IF opens
                  THEN [session EXCEPT !.state["s1"] = "open",
                                       !.calls = connection_made(@, "s1")]
                  ELSE [session EXCEPT !.state["s1"] = "failed",
                                       !.error = "AttributeError"]

\* _on_xbee_receive, _on_xbee_receive_async, XBee.data_received
XBeeData ==
    /\ session.variant = "xbee"
    /\ session.state["s1"] = "open"
    /\ Len(session.calls) < MaxCalls
    /\ session' = [session EXCEPT !.calls = session_data_received(@, "s1")]

\* the radio or its serial port goes away: the device has no callback for it
XBeeGone ==
    /\ session.variant = "xbee"
    /\ session.state["s1"] = "open"
    /\ session' = [session EXCEPT !.state["s1"] = "closed"]

SessionInit ==
    /\ CodecInit /\ StoreIdle /\ ServeIdle /\ LegacyIdle /\ RestIdle /\ BrokerIdle
    /\ emu = EmuIdle /\ event_loop = ServerIdle /\ tcp = TcpIdle /\ wire = WireIdle /\ plugin = PluginIdle /\ xbee = XBeeIdle /\ scheduler = SchedulerIdle
    /\ \E variant \in {"socket", "xbee"} :
           session = [SessionIdle EXCEPT !.variant = variant]
    /\ clock = 0

SessionNext ==
    /\ \/ \E s \in Sessions : SocketMade(s)
       \/ \E s \in Sessions : SocketData(s)
       \/ \E s \in Sessions, exc \in {"none", "ConnectionResetError"} : SocketLost(s, exc)
       \/ \E opens \in BOOLEAN : XBeeInit(opens)
       \/ XBeeData
       \/ XBeeGone
    /\ UNCHANGED <<codecVars, storeVars, serveVars, legacyVars, restVars, brokerVars,
                   emu, event_loop, tcp, wire, plugin, xbee, scheduler, clock>>

SpecSession == SessionInit /\ [][SessionNext]_vars

\* the places of the calls of an event for a session
CallsOf(event, s) ==
    {i \in DOMAIN session.calls :
         session.calls[i].event = event /\ session.calls[i].session = s}

\* connect once when the session opens, disconnect once when it is closed or
\* failed to open, disconnect after connect and no PDU after disconnect
SessionContract(s) ==
    /\ Cardinality(CallsOf("connect", s)) =
           (IF session.state[s] \in {"open", "closed"} THEN 1 ELSE 0)
    /\ Cardinality(CallsOf("disconnect", s)) =
           (IF session.state[s] \in {"closed", "failed"} THEN 1 ELSE 0)
    /\ \A i \in CallsOf("disconnect", s) :
           /\ \A j \in CallsOf("connect", s) : j < i
           /\ \A j \in CallsOf("PDU", s) : j < i

\* C32: for every transport session the connect handler is invoked exactly
\* once when the session opens and the disconnect handler exactly once when it
\* closes or fails to open, never before the connect of a session that opened,
\* and nothing of the session is delivered after its disconnect; for the
\* socket and the XBee variant alike
C32_ConnectDisconnectOnce == \A s \in Sessions : SessionContract(s)

-----------------------------------------------------------------------------
(* Legacy codec (src/protocol.py): pack_raw and unpack_raw of the header and
   of the seven PDU classes *)

\* struct formats of the bodies, as pack_raw and unpack_raw use them
legacy_format ==
    (AIPDU :> <<"B", "I">>)
    @@ (ACPDU :> <<"H", "h", "H", "H", "H", "H", "h", "h">>)
    @@ (AAPDU :> <<"H", "H", "H", "H", "H", "H", "H">>)
    @@ (ADPDU :> <<"B", "B", "B", "B">>)
    @@ (APPDU :> <<"H", "H", "H", "H">>)
    @@ (ASPDU :> <<"h", "h", "h", "h">>)
    @@ (AMPDU :> <<"i", "h", "h", "h">>)

\* the body attributes __init__ gives each class and their types
\* (client_name of the AIPDU is kept apart)
legacy_attributes ==
    (AIPDU :> <<"B", "I">>)
    @@ (ACPDU :> <<"H", "h", "H", "H", "H", "H", "h", "h">>)
    @@ (AAPDU :> <<"H", "H", "H", "H", "H", "H", "H">>)
    @@ (ADPDU :> <<"B", "B", "B", "B">>)
    @@ (APPDU :> <<"H", "H", "H", "H", "H">>)
    @@ (ASPDU :> <<"h", "h", "h", "h">>)
    @@ (AMPDU :> <<"i", "h", "h", "h">>)

header_format == <<"B", "B", "I", "I", "H">>

signed_types == {"b", "h", "i", "l", "q"}

\* int.from_bytes(bytes, "little", signed=True)
RECURSIVE FromLittleEndianSigned(_)
FromLittleEndianSigned(bytes) ==
    IF Len(bytes) = 1
    THEN (IF bytes[1] >= 128 THEN bytes[1] - 256 ELSE bytes[1])
    ELSE Head(bytes) + 256 * FromLittleEndianSigned(Tail(bytes))

\* struct.unpack("<...") with signed and unsigned integer types
RECURSIVE struct_unpack(_, _)
struct_unpack(fmt, bytes) ==
    IF fmt = <<>> THEN <<>>
    ELSE LET w == c_type_lengths[Head(fmt)]
             own == SubSeq(bytes, 1, w)
         IN  <<IF Head(fmt) \in signed_types THEN FromLittleEndianSigned(own)
               ELSE FromLittleEndian(own)>>
                \o struct_unpack(Tail(fmt), SubSeq(bytes, w + 1, Len(bytes)))

\* ProtocolHeader.pack_raw
header_pack_raw(header) ==
    pack(header_format, <<header.start_byte, header.frame_type, header.seq_num,
                          header.epoch, header.length>>)

\* ProtocolHeader.unpack_raw
header_unpack_raw(buffer) ==
    LET v == struct_unpack(header_format, buffer)
    IN  [start_byte |-> v[1], frame_type |-> v[2], seq_num |-> v[3], epoch |-> v[4],
         length |-> v[5]]

\* __init__ of the PDU classes: a header of the class's frame type, every
\* body attribute 0, an empty client_name
NewFrame(frame_type) ==
    [header |-> [start_byte |-> 1, frame_type |-> frame_type, seq_num |-> 0,
                 epoch |-> 0, length |-> 0],
     body |-> [i \in DOMAIN legacy_attributes[frame_type] |-> 0],
     client_name |-> <<>>]

\* pack_raw of the PDU classes: the PDU with header.length set, and the bytes
pack_raw(p) ==
    LET fmt == legacy_format[p.header.frame_type]
        temp == pack(fmt, SubSeq(p.body, 1, Len(fmt))) \o p.client_name
        packed == [p EXCEPT !.header.length = Len(temp)]
    IN  [pdu |-> packed, buffer |-> header_pack_raw(packed.header) \o temp]

\* _frame_type_dict[frame_type]().unpack_raw(buffer)
unpack_raw(frame_type, buffer) ==
    LET fmt == legacy_format[frame_type]
        frame == NewFrame(frame_type)
        size == calcsize(fmt)
        v == struct_unpack(fmt, SubSeq(buffer, 13, 12 + size))
    IN  [header |-> header_unpack_raw(SubSeq(buffer, 1, 12)),
         body |-> [i \in DOMAIN frame.body |-> IF i <= Len(fmt) THEN v[i] ELSE frame.body[i]],
         client_name |-> IF frame_type = AIPDU
                         THEN SubSeq(buffer, 13 + size, Len(buffer))
                         ELSE frame.client_name]

\* two in-range values of each integer type
FieldValues(t) ==
    CASE t = "B" -> {0, 255}
      [] t = "H" -> {0, 65535}
      [] t = "h" -> {-32768, 32767}
      [] t = "i" -> {-70000, 2147483647}
      [] OTHER -> {0, 70000}

\* every assignment of those values to the body attributes of a class
RECURSIVE Assignments(_)
Assignments(types) ==
    IF types = <<>> THEN {<<>>}
    ELSE {<<v>> \o rest : v \in FieldValues(Head(types)), rest \in Assignments(Tail(types))}

\* the PDUs packed: every class, with a sequence number and an epoch set as
\* the write_* methods do
LegacyPdus ==
    UNION {{[NewFrame(frame_type) EXCEPT
                 !.header.seq_num = 258, !.header.epoch = 70000, !.body = body,
                 !.client_name = IF frame_type = AIPDU THEN <<67, 97, 114>> ELSE <<>>] :
               body \in Assignments(legacy_attributes[frame_type])} :
           frame_type \in DOMAIN legacy_attributes}

\* a PDU is filled in
WritePdu(p) ==
    /\ wire.phase = "none"
    /\ wire' = [wire EXCEPT !.phase = "written", !.pdu = p]

\* _write_pdu: pdu.pack_raw()
PackRaw ==
    /\ wire.phase = "written"
    /\ LET r == pack_raw(wire.pdu)
       IN  wire' = [wire EXCEPT !.phase = "packed", !.pdu = r.pdu, !.buffer = r.buffer]

\* _get_frame_from_raw: frame.unpack_raw(buffer)
UnpackRaw ==
    /\ wire.phase = "packed"
    /\ wire' = [wire EXCEPT !.phase = "unpacked",
                            !.unpacked = unpack_raw(wire.pdu.header.frame_type, wire.buffer)]

WireInit ==
    /\ CodecInit /\ StoreIdle /\ ServeIdle /\ LegacyIdle /\ RestIdle /\ BrokerIdle
    /\ AppIdle
    /\ clock = 0

WireNext ==
    /\ \/ \E p \in LegacyPdus : WritePdu(p)
       \/ PackRaw
       \/ UnpackRaw
    /\ UNCHANGED <<codecVars, storeVars, serveVars, legacyVars, restVars, brokerVars,
                   emu, event_loop, tcp, session, plugin, xbee, scheduler, clock>>

SpecWire == WireInit /\ [][WireNext]_vars

\* C33: for every legacy PDU class and every in-range field assignment,
\* unpack_raw(pack_raw(p)) yields a PDU whose header fields and every body
\* field equal those of p
C33_RawRoundTrip ==
    wire.phase = "unpacked" =>
        /\ wire.unpacked.header = wire.pdu.header
        /\ wire.unpacked.body = wire.pdu.body
        /\ wire.unpacked.client_name = wire.pdu.client_name

-----------------------------------------------------------------------------
(* PDU descriptors: protocol.pdu.PDU and plugins.schema._PDU *)

\* body fields of a descriptor
MaxFields == 2

\* c_type_lengths of plugins.schema._PDU.__init__
plugin_c_type_lengths ==
    [t \in {"c", "b", "B", "?", "h", "H", "i", "I", "l", "L", "f", "d", "q", "Q"} |->
        CASE t \in {"c", "b", "B", "?"} -> 1
          [] t \in {"h", "H"} -> 2
          [] t \in {"i", "I", "l", "L", "f", "d"} -> 4
          [] OTHER -> 8]

RECURSIVE PluginSumLengths(_)
PluginSumLengths(entries) ==
    IF entries = <<>> THEN 0
    ELSE plugin_c_type_lengths[Head(entries)[2]] + PluginSumLengths(Tail(entries))

\* plugins.schema._PDU.__init__: the entries of header + body
plugin_PDU(name, header, body) ==
    [name |-> name,
     length |-> PluginSumLengths(header \o body),
     fields_names |-> Tail([i \in DOMAIN (header \o body) |-> (header \o body)[i][1]]),
     struct_format |-> [i \in DOMAIN (header \o body) |-> (header \o body)[i][2]]]

\* the header of every descriptor: the validity bit field
DescriptorHeader == << <<"valid_bitfield", "H">> >>

\* bodies of 1..MaxFields fields of any supported type
DescriptorBodies ==
    UNION {{[i \in 1..n |-> <<<<"f1", "f2", "f3", "f4">>[i], types[i]>>] :
               types \in [1..n -> DOMAIN c_type_lengths]} : n \in 1..MaxFields}

\* PDU(name, struct) of protocol.pdu or _PDU(name, header, body) of the plugin
MakePdu(made_by, body) ==
    /\ plugin.phase = "none"
    /\ plugin' = [plugin EXCEPT
                      !.phase = "made", !.made_by = made_by,
                      !.pdu = IF made_by = "protocol.pdu"
                              THEN PDU("pdu", DescriptorHeader \o body)
                              ELSE plugin_PDU("pdu", DescriptorHeader, body)]

\* _parse_data: decode(data[index:index + length]) on a buffer that is long
\* enough; struct.unpack raises struct.error unless the slice has the size of
\* the format
DecodeSlice ==
    /\ plugin.phase = "made"
    /\ LET bytes_in == [i \in 1..plugin.pdu.length |-> 0]
       IN  plugin' = [plugin EXCEPT !.phase = "decoded",
                                    !.error = decode(plugin.pdu, <<>>, bytes_in).error]

DescriptorInit ==
    /\ CodecInit /\ StoreIdle /\ ServeIdle /\ LegacyIdle /\ RestIdle /\ BrokerIdle
    /\ AppIdle
    /\ clock = 0

DescriptorNext ==
    /\ \/ \E made_by \in {"protocol.pdu", "plugins.schema"}, body \in DescriptorBodies :
              MakePdu(made_by, body)
       \/ DecodeSlice
    /\ UNCHANGED <<codecVars, storeVars, serveVars, legacyVars, restVars, brokerVars,
                   emu, event_loop, tcp, session, wire, xbee, scheduler, clock>>

SpecDescriptor == DescriptorInit /\ [][DescriptorNext]_vars

\* C34: the length of every PDU descriptor is the sum of the wire widths of
\* its declared fields, the number of bytes its struct format consumes, so a
\* slice of length bytes unpacks without a size error
C34_LengthIsStructSize ==
    /\ plugin.phase \in {"made", "decoded"} =>
           plugin.pdu.length = calcsize(plugin.pdu.struct_format)
    /\ plugin.phase = "decoded" => plugin.error = "none"

-----------------------------------------------------------------------------
(* plugins.schema._parse_data on a delivery; its descriptors are those of the
   schema, made by _PDU *)

\* _pdus: the descriptors of the schema as the plugin makes them
plugin_pdus ==
    [id \in {schema.pdu[i].id : i \in DOMAIN schema.pdu} |->
        LET conf == schema.pdu[CHOOSE i \in DOMAIN schema.pdu : schema.pdu[i].id = id]
        IN  plugin_PDU(conf.name, <<Head(conf.struct)>>, Tail(conf.struct))]

\* what _parse_data leaves: the fields of each descriptor, the handler calls
\* made and the exception raised
PluginStop(flds, cs, err) == [fields |-> flds, calls |-> cs, error |-> err]

\* _parse_data: index = 0, one PDU, the 'PDU' handler called with its fields;
\* the loop is commented out
plugin_parse_data(data, flds) ==
    IF data = <<>> THEN PluginStop(flds, <<>>, "IndexError")
    ELSE IF data[1] # schema.start_byte THEN PluginStop(flds, <<>>, "Invalid start byte")
    ELSE IF Len(data) < 2 THEN PluginStop(flds, <<>>, "IndexError")
    ELSE IF data[2] \notin DOMAIN plugin_pdus THEN PluginStop(flds, <<>>, "Invalid PDU type")
    ELSE LET pdu == plugin_pdus[data[2]] IN
         IF pdu.length > Len(data) - 2 THEN PluginStop(flds, <<>>, "Invalid data length")
         ELSE LET d == decode(pdu, flds[data[2]], SubSeq(data, 3, 2 + pdu.length))
              IN  IF d.error # "none" THEN PluginStop(flds, <<>>, d.error)
                  ELSE PluginStop([flds EXCEPT ![data[2]] = d.fields],
                                  <<[name |-> pdu.name, fields |-> d.fields]>>, "none")

\* _Socket.data_received: try _parse_data(data), print the error
PluginDataReceived(b) ==
    /\ plugin.phase \in {"none", "parsed"}
    /\ plugin.received < MaxPdus
    /\ LET r == plugin_parse_data(b.data, plugin.fields)
       IN  plugin' = [plugin EXCEPT !.phase = "parsed", !.chunks = b.chunks,
                                    !.calls = r.calls, !.error = r.error,
                                    !.fields = r.fields, !.received = @ + 1]

PluginNext ==
    /\ \E b \in Buffers : PluginDataReceived(b)
    /\ UNCHANGED <<codecVars, storeVars, serveVars, legacyVars, restVars, brokerVars,
                   emu, event_loop, tcp, session, wire, xbee, scheduler, clock>>

SpecPlugin == DescriptorInit /\ [][PluginNext]_vars

\* C35: _parse_data decodes every PDU of a delivery that is a batch of
\* back-to-back PDUs: the 'PDU' handler is invoked once per PDU, in order
C35_WholeBatchDecoded ==
    (plugin.phase = "parsed" /\ \A i \in DOMAIN plugin.chunks : plugin.chunks[i].kind = "pdu")
        => /\ Len(plugin.calls) = Len(plugin.chunks)
           /\ \A i \in DOMAIN plugin.chunks :
                  plugin.calls[i].name = plugin_pdus[plugin.chunks[i].pdu.id].name

-----------------------------------------------------------------------------
(* Enqueue against flush when no emit fails *)

\* no emit to the back end has failed
EveryEmitSucceeded(server) ==
    audit[server].dropped = {} /\ namespaces[server].job # "removed"

\* the batches of a back end that hold the sample
BatchesWith(server, x) ==
    {i \in DOMAIN emitted[server] : x \in SamplesOf(emitted[server][i])}

\* the sample numbers sent for a sensor, batch after batch
RECURSIVE SentOf(_, _)
SentOf(batches, sensor) ==
    IF batches = <<>> THEN <<>>
    ELSE (IF sensor \in DictKeys(Head(batches)) THEN DictGet(Head(batches), sensor) ELSE <<>>)
         \o SentOf(Tail(batches), sensor)

\* C36: if every emit succeeds then, however enqueue and flush interleave,
\* each enqueued sample is in exactly one emitted batch (once it is not in the
\* buffer any more): none is lost, none is delivered twice, and per sensor
\* the enqueue order is kept
C36_ExactlyOneBatch ==
    \A server \in Servers :
        EveryEmitSucceeded(server) =>
            /\ \A x \in audit[server].enqueued : Cardinality(BatchesWith(server, x)) <= 1
            /\ \A sensor \in BrokerSensors : InEnqueueOrder(SentOf(emitted[server], sensor))
            /\ Quiescent(server) =>
                   \A x \in audit[server].enqueued :
                       \/ BatchesWith(server, x) # {}
                       \/ x \in SamplesOf(namespaces[server].datastore)

-----------------------------------------------------------------------------
(* The XBee transport (src/src/protocol/factory.py XBee and                *)
(* src/src/protocol_factory.py ProtocolFactoryXBee): the library calls     *)
(* _on_xbee_receive on its own thread, the event loop runs on the main one *)

MaxMessages == 3

xbee_thread == "xbee"
loop_thread == "loop"

\* the messages of the car: two well-formed ones and one with a wrong start byte
XBeeItems == {it \in ServeItems : it.chunks \in {<<AeroA>>, <<AeroB>>, <<BadStart>>}}

\* loop.call_soon / call_soon_threadsafe: the handle goes to the end of the
\* ready queue
call_soon(ready, kind, item) == Append(ready, [kind |-> kind, item |-> item])

\* a decoding that has happened: of which message, on which thread
Decoding(item, thread, err) == [item |-> item, thread |-> thread, error |-> err]

\* mutant: the callback calls data_received itself
on_xbee_receive_direct(x, item) ==
    [x EXCEPT !.delivered = Append(@, item),
              !.decoded = Append(@, Decoding(item, xbee_thread, "none"))]

\* _on_xbee_receive: data = bytes(message.data), then
\* asyncio.run_coroutine_threadsafe(self._on_xbee_receive_async(data), loop),
\* which is loop.call_soon_threadsafe(callback)
on_xbee_receive(x, item) ==
    [x EXCEPT !.delivered = Append(@, item),
              !.ready = call_soon(@, "callback", item)]

\* the library thread delivers a message
OnXBeeReceive(item) ==
    /\ Len(xbee.delivered) < MaxMessages
    /\ xbee' = on_xbee_receive(xbee, item)
    /\ UNCHANGED <<db, clock>>

\* the loop runs the callback of run_coroutine_threadsafe: ensure_future makes
\* a task of the coroutine, whose first step is scheduled with call_soon
RunCallback ==
    /\ xbee.ready # <<>>
    /\ Head(xbee.ready).kind = "callback"
    /\ xbee' = [xbee EXCEPT !.ready = call_soon(Tail(@), "step", Head(@).item)]
    /\ UNCHANGED <<db, clock>>

\* the loop runs _on_xbee_receive_async: self.data_received(data), which is
\* Protocol.data_received in protocol/factory.py (the bytes are decoded here)
\* and ProtocolClient.put in protocol_factory.py (a task of queue.put)
RunReceiveAsync ==
    /\ xbee.ready # <<>>
    /\ Head(xbee.ready).kind = "step"
    /\ LET item == Head(xbee.ready).item IN
       IF xbee.variant = "factory"
       THEN \E r \in {data_received(item.data, xbee.fields)} :
                xbee' = [xbee EXCEPT !.ready = Tail(@),
                                     !.fields = r.parsed.fields,
                                     !.decoded = Append(@, Decoding(item, loop_thread,
                                                                    r.parsed.error))]
       ELSE xbee' = [xbee EXCEPT !.ready = call_soon(Tail(@), "put", item)]
    /\ UNCHANGED <<db, clock>>

\* the loop runs the task of ProtocolClient.put: the item enters the
\* asyncio.Queue
RunQueuePut ==
    /\ xbee.ready # <<>>
    /\ Head(xbee.ready).kind = "put"
    /\ xbee' = [xbee EXCEPT !.ready = Tail(@), !.queue = Append(@, Head(xbee.ready).item)]
    /\ UNCHANGED <<db, clock>>

\* the loop resumes the handler task at client.recv(): one pass of
\* Server._protocol_serve
XBeeRecv(now) ==
    /\ xbee.running
    /\ xbee.queue # <<>>
    /\ \E r \in {protocol_serve(Head(xbee.queue), db, now)} :
           /\ db' = r.db
           /\ xbee' = [xbee EXCEPT !.queue = Tail(@),
                                   !.running = r.running,
                                   !.decoded = Append(@, Decoding(Head(xbee.queue),
                                                                  loop_thread, r.error))]
    /\ clock' = now

RadioInit ==
    /\ CodecInit /\ ServeIdle /\ LegacyIdle /\ RestIdle /\ BrokerIdle
    /\ emu = EmuIdle /\ event_loop = ServerIdle /\ tcp = TcpIdle /\ session = SessionIdle /\ scheduler = SchedulerIdle
    /\ wire = WireIdle /\ plugin = PluginIdle
    /\ \E v \in {"factory", "protocol_factory"} : xbee = [XBeeIdle EXCEPT !.variant = v]
    /\ db = ServerDatabase
    /\ query = NoQuery
    /\ durable = ServerDatabase.rows
    /\ clock = 1

RadioNext ==
    /\ \/ \E item \in XBeeItems : OnXBeeReceive(item)
       \/ RunCallback
       \/ RunReceiveAsync
       \/ RunQueuePut
       \/ \E now \in {clock, clock + 1} : XBeeRecv(now)
    /\ UNCHANGED <<codecVars, serveVars, legacyVars, restVars, brokerVars,
                   emu, event_loop, tcp, session, wire, plugin, scheduler, query, durable>>

SpecRadio == RadioInit /\ [][RadioNext]_vars

\* the messages of the handles of one kind, in the order of the ready queue
ReadyItems(kind) ==
    LET hs == SelectSeq(xbee.ready, LAMBDA h : h.kind = kind)
    IN  [i \in DOMAIN hs |-> hs[i].item]

DecodedItems == [i \in DOMAIN xbee.decoded |-> xbee.decoded[i].item]

\* C37: no message is decoded on the XBee library thread; every message the
\* library delivered is handed to the event loop, and the messages are decoded
\* on the loop in the order of delivery: what was delivered is what has been
\* decoded followed by what waits, stage by stage, on the loop
C37_DecodedOnTheLoopInOrder ==
    /\ \A i \in DOMAIN xbee.decoded : xbee.decoded[i].thread = loop_thread
    /\ xbee.delivered = DecodedItems \o xbee.queue \o ReadyItems("put")
                            \o ReadyItems("step") \o ReadyItems("callback")

\* two different messages were delivered and both have been decoded on the loop
C37_Witness ==
    /\ Len(xbee.decoded) >= 2
    /\ xbee.decoded[1].item # xbee.decoded[2].item
    /\ xbee.ready = <<>> /\ xbee.queue = <<>>

-----------------------------------------------------------------------------
(* The jobs of the scheduler across reconnects: _connect_client makes a new *)
(* Namespace for every call, Namespace.on_connect adds an emit job, every   *)
(* call of SocketIO.start that returns adds a health-check job              *)

\* Namespace.on_connect: scheduler.add_job(self._emit_datastore, ...)
on_connect_add_job(s, server) == [s EXCEPT !.emit_jobs[server] = @ + 1]

\* CarNamespace.__init__: protocol.register_on(pdu, self._handle_protocol_pdu),
\* which is event_handlers[event] = func; EmulationNamespace registers with
\* the emulator in on_connect
register_on(s, server) ==
    IF socket_io_emulation[server] THEN s
    ELSE [s EXCEPT !.handlers = [other \in Servers |-> IF other = server THEN 1 ELSE 0]]

\* self.job.remove() of the namespace the client has now
job_remove(s, server) == [s EXCEPT !.emit_jobs[server] = @ - 1]

\* the calls of start that return, innermost first: each does
\* self.health_job = scheduler.add_job(self._health_check, ...)
add_health_jobs(s, depth) ==
    [s EXCEPT !.health = @ \cup ((s.added + 1)..(s.added + depth)),
              !.health_job = s.added + depth,
              !.added = @ + depth]

\* one pass of the loop of _connect_client, with the jobs and handlers
ReconnectClient ==
    /\ ConnectClient
    /\ LET server == server_order[sio.server]
           made == IF sio.retry = 0 THEN register_on(scheduler, server) ELSE scheduler
       IN  scheduler' = IF reachable[server] = "up" THEN on_connect_add_job(made, server)
                        ELSE made

\* the end of start, with the health-check jobs
ReconnectFinishStart ==
    /\ FinishStart
    /\ scheduler' = IF \E server \in Servers : clients[server]
                    THEN add_health_jobs(scheduler, sio.depth)
                    ELSE scheduler

\* the emit job of the namespace the client has now, with the removal of
\* the job after a failed emit
ReconnectEmit(server) ==
    /\ EmitDatastore(server)
    /\ scheduler' = IF clients[server] THEN scheduler ELSE job_remove(scheduler, server)

\* a scheduled health-check job runs _health_check and finds no client
\* connected: scheduler.remove_job(self.health_job.id), which raises
\* JobLookupError for a job that is not scheduled, then sleep and start
HealthCheckBy(j) ==
    /\ j \in scheduler.health
    /\ \A server \in Servers : ~clients[server]
    /\ IF scheduler.health_job \in scheduler.health
       THEN /\ sio.pc = "started"
            /\ sio.restarts < MaxRestarts
            /\ scheduler' = [scheduler EXCEPT !.health = @ \ {scheduler.health_job}]
            /\ sio' = [sio EXCEPT !.pc = "connect", !.server = 1, !.retry = 0, !.depth = 1,
                                  !.health_jobs = @ - 1, !.restarts = @ + 1,
                                  !.attempts = [server \in Servers |-> 0]]
       ELSE /\ scheduler.lookup_errors < MaxRestarts
            /\ scheduler' = [scheduler EXCEPT !.lookup_errors = @ + 1]
            /\ UNCHANGED sio
    /\ UNCHANGED <<clients, reachable, namespaces, emitted, n_produced, audit>>

\* a back end comes up or goes down
BackEndChanges(server, r) ==
    /\ reachable[server] # r
    /\ reachable' = [reachable EXCEPT ![server] = r]
    /\ UNCHANGED <<clients, namespaces, emitted, n_produced, audit, sio, scheduler>>

ReconnectInit ==
    /\ CodecInit /\ StoreIdle /\ ServeIdle /\ LegacyIdle /\ RestIdle /\ AppIdle
    /\ clock = 0
    /\ clients = [server \in Servers |-> FALSE]
    /\ reachable \in [Servers -> {"up", "down"}]
    /\ namespaces = [server \in Servers |-> NewNamespace(server)]
    /\ emitted = [server \in Servers |-> <<>>]
    /\ n_produced = 0
    /\ audit = [server \in Servers |-> NoAudit]
    /\ sio = SioIdle

ReconnectNext ==
    /\ \/ Start /\ UNCHANGED scheduler
       \/ ReconnectClient
       \/ ReconnectFinishStart
       \/ \E j \in 1..(MaxDepth * (MaxRestarts + 1)) : HealthCheckBy(j)
       \/ \E server \in Servers : OnDisconnect(server) /\ UNCHANGED scheduler
       \/ \E server \in Servers, sensor \in BrokerSensors :
              AddSensorValues(server, sensor) /\ UNCHANGED scheduler
       \/ \E server \in Servers : AddAppend(server) /\ UNCHANGED scheduler
       \/ \E server \in Servers : ReconnectEmit(server)
       \/ \E server \in Servers : ClearDatastore(server) /\ UNCHANGED scheduler
    /\ UNCHANGED <<codecVars, storeVars, serveVars, legacyVars, restVars, clock,
                   emu, event_loop, tcp, session, wire, plugin, xbee>>

SpecReconnect == ReconnectInit /\ [][ReconnectNext]_vars

\* C38: over connects, failed emits, disconnects and reconnects the scheduler
\* holds at most one emit job for the Namespace of a back end, and the
\* producer holds at most one callback of it
C38_OneEmitJobPerNamespace ==
    \A server \in Servers :
        /\ scheduler.emit_jobs[server] <= 1
        /\ scheduler.handlers[server] <= 1

-----------------------------------------------------------------------------
(* The health-check jobs while back ends come and go *)

HealthNext ==
    /\ \/ Start /\ UNCHANGED scheduler
       \/ ReconnectClient
       \/ ReconnectFinishStart
       \/ \E j \in 1..(MaxDepth * (MaxRestarts + 1)) : HealthCheckBy(j)
       \/ \E server \in Servers : OnDisconnect(server) /\ UNCHANGED scheduler
       \/ \E server \in Servers, r \in {"up", "down"} : BackEndChanges(server, r)
    /\ UNCHANGED <<codecVars, storeVars, serveVars, legacyVars, restVars, clock,
                   emu, event_loop, tcp, session, wire, plugin, xbee>>

SpecHealth == ReconnectInit /\ [][HealthNext]_vars

\* C39: at most one health-check job is scheduled, SocketIO.health_job is
\* that job, and _health_check never asks the scheduler to remove a job that
\* is not scheduled
C39_OneTrackedHealthJob ==
    /\ Cardinality(scheduler.health) <= 1
    /\ scheduler.health \subseteq {scheduler.health_job}
    /\ scheduler.lookup_errors = 0

-----------------------------------------------------------------------------
(* The client tables of the legacy Server *)

\* C40: after any AIPDU and connection-lost events a factory is in at most
\* one of the tables of car clients and GUI clients, and a factory whose
\* connection _on_lost has handled is in neither
C40_OneTablePerFactory ==
    \A factory \in Factories :
        /\ ~(factory \in DictKeys(car_clients) /\ factory \in DictKeys(gui_clients))
        /\ lost[factory] >= 0 =>
               factory \notin DictKeys(car_clients) \union DictKeys(gui_clients)

====
